---- MODULE Spec2Model ----
(***************************************************************************)
(* A model of the linear-cli command line client (bin/linear.mjs).         *)
(*                                                                         *)
(* The components modelled, each with its own specification:               *)
(*   SpecBlocking  the blocking-relation commands: issue update/create     *)
(*                 with --blocks / --blocked-by, issue close, issue        *)
(*                 update --status, and issues --unblocked;                *)
(*   SpecSort      the sort-order commands: reorder and move;              *)
(*   SpecReorder   reorder, request by request;                            *)
(*   SpecConfig    the config files, the aliases and the commands that     *)
(*                 read or write them;                                     *)
(*   SpecCheck     issue update --check / --uncheck;                       *)
(*   SpecList      issues with its filters, and roadmap;                   *)
(*   SpecNext      next, from the branch name to the new shell.            *)
(* The remote service is the state; every command is one action, except    *)
(* reorder, whose concurrently issued update requests are applied (or      *)
(* failed) one at a time by the remote service, and next, which runs git   *)
(* and the package manager one after the other.                            *)
(***************************************************************************)
EXTENDS Integers, Sequences, FiniteSets, TLC

VARIABLES
    issueState,     \* remote: issue identifier -> coarse state type, or "absent"
    relations,      \* remote: set of relations [issueId, relatedIssueId, type]
    out,            \* what the last blocking-graph command did and printed
    sortOrder,      \* remote: sibling -> sort key
    sout,           \* what the last sort-order command did and printed
    cmds,           \* the number of sort-order commands run so far
    run,            \* the reorder command in progress, request by request
    localFile,      \* ./.linear: whether it exists and its lines
    globalFile,     \* ~/.linear: whether it exists and its lines
    env,            \* the environment variables LINEAR_API_KEY and LINEAR_TEAM
    cout,           \* what the last configuration or alias command did
    issue,          \* remote: the title and the description of one issue
    kout,           \* what the last issue update --check / --uncheck did
    lout,           \* what the last issues command listed
    nrun            \* the next command in progress, step by step

blockVars == <<issueState, relations, out>>

sortVars == <<sortOrder, sout, cmds>>

confVars == <<localFile, globalFile, env, cout>>

checkVars == <<issue, kout>>

listVars == <<lout>>

nextVars == <<nrun>>

extVars == <<confVars, checkVars, listVars, nextVars>>

vars == <<issueState, relations, out, sortOrder, sout, cmds, run, confVars,
          checkVars, listVars, nextVars>>

----------------------------------------------------------------------------
(* Bounds of the blocking-graph model. *)

\* Issue identifiers are 1..NumIssues.
NumIssues == 3
\* Issues 1..InitialIssues exist in the initial state, the others are created.
InitialIssues == 2
\* The remote holds at most MaxRelations relations.
MaxRelations == 2

Issues == 1..NumIssues

\* The coarse state types of the team's workflow states.
StateTypes == {"unstarted", "started", "completed", "canceled"}

RelationTypes == {"blocks", "is_blocked_by", "related"}

Existing == {i \in Issues : issueState[i] # "absent"}

----------------------------------------------------------------------------
(* issues --unblocked *)

\* The nodes of the issues query: every fetched issue with its state and its
\* relation list, each relation with the related issue's identifier and state.
FetchIssues(fetched) ==
    [i \in fetched |->
        [identifier |-> i,
         state      |-> [type |-> issueState[i]],
         relations  |-> {[type |-> r.type,
                          relatedIssue |-> [identifier |-> r.relatedIssueId,
                                            state |-> [type |-> issueState[r.relatedIssueId]]]]
                         : r \in {q \in relations : q.issueId = i}}]]

\* Mutant: a blocker that is completed or canceled no longer blocks.
BlockedActiveOnly(nodes) ==
    {rel.relatedIssue.identifier :
        rel \in {r \in UNION {nodes[i].relations :
                                i \in {j \in DOMAIN nodes :
                                          nodes[j].state.type \notin {"completed", "canceled"}}} :
                    r.type = "blocks"}}

\* The set `blocked`: the target of every relation of type blocks carried by
\* a fetched issue.
Blocked(nodes) ==
    {rel.relatedIssue.identifier :
        rel \in {r \in UNION {nodes[i].relations : i \in DOMAIN nodes} : r.type = "blocks"}}

\* The filter to unblocked, non-completed issues.
Unblocked(nodes) ==
    {i \in DOMAIN nodes :
        /\ nodes[i].state.type \notin {"completed", "canceled"}
        /\ nodes[i].identifier \notin Blocked(nodes)}

NoOut == [cmd |-> "none", exit |-> 0, fetched |-> {}, listed |-> {},
          issue |-> 0, blocks |-> <<>>, blockedBy |-> <<>>, relReqs |-> <<>>]

\* `linear issues --unblocked`: the remote returns a window of the team's
\* issues (the first 100), and the command prints the unblocked ones.
CmdIssuesUnblocked(fetched) ==
    /\ fetched \subseteq Existing
    /\ out' = [NoOut EXCEPT !.cmd = "issues", !.fetched = fetched,
                            !.listed = Unblocked(FetchIssues(fetched))]
    /\ UNCHANGED <<issueState, relations>>

----------------------------------------------------------------------------
(* issue update / issue create / issue close *)

\* A command names at most MaxTargets issues with its repeatable flags
\* --blocks and --blocked-by together.
MaxTargets == 1

TargetLists == UNION {[1..n -> Issues] : n \in 0..MaxTargets}

\* The values of the two flags of one command.
FlagValues == {f \in TargetLists \X TargetLists : Len(f[1]) + Len(f[2]) <= MaxTargets}

Min(a, b) == IF a <= b THEN a ELSE b

\* Mutant: --blocked-by records the relation on the wrong issue.
RelationRequestsSameSide(issueId, blocksIssues, blockedByIssues) ==
    [k \in 1..Len(blocksIssues) |->
        [issueId |-> issueId, relatedIssueId |-> blocksIssues[k], type |-> "blocks"]]
    \o [k \in 1..Len(blockedByIssues) |->
        [issueId |-> issueId, relatedIssueId |-> blockedByIssues[k], type |-> "blocks"]]

\* The issueRelationCreate inputs of a command, in the order they are sent:
\* one per --blocks target, then one per --blocked-by target.
RelationRequests(issueId, blocksIssues, blockedByIssues) ==
    [k \in 1..Len(blocksIssues) |->
        [issueId |-> issueId, relatedIssueId |-> blocksIssues[k], type |-> "blocks"]]
    \o [k \in 1..Len(blockedByIssues) |->
        [issueId |-> blockedByIssues[k], relatedIssueId |-> issueId, type |-> "blocks"]]

\* The remote service creates a relation between two existing, different
\* issues and answers anything else with an error.
RemoteAccepts(req, states) ==
    /\ states[req.issueId] # "absent"
    /\ states[req.relatedIssueId] # "absent"
    /\ req.issueId # req.relatedIssueId

\* The index of the first request the remote refuses (gql then exits the
\* process), or Len(reqs) + 1.
FirstRefused(reqs, states) ==
    IF \E k \in 1..Len(reqs) : ~RemoteAccepts(reqs[k], states)
    THEN CHOOSE k \in 1..Len(reqs) :
            /\ ~RemoteAccepts(reqs[k], states)
            /\ \A j \in 1..(k - 1) : RemoteAccepts(reqs[j], states)
    ELSE Len(reqs) + 1

\* The sequential loop over the relation requests: each is awaited before
\* the next is sent, and a refused one ends the process.
SendRelations(reqs, states) ==
    LET bad == FirstRefused(reqs, states) IN
    [sent    |-> SubSeq(reqs, 1, Min(bad, Len(reqs))),
     created |-> {reqs[k] : k \in 1..(bad - 1)},
     exit    |-> IF bad <= Len(reqs) THEN 1 ELSE 0]

\* The workflow states `issue update --status` is given here: it cancels an
\* issue, so that only `issue close` completes one.
StatusInputs == {"none", "canceled"}

\* `linear issue update <issueId> [--status s] [--blocks t]* [--blocked-by t]*`.
\* status is the workflow state matched by name, or "none".
CmdIssueUpdate(issueId, status, blocksIssues, blockedByIssues) ==
    LET hasRelationUpdates == Len(blocksIssues) > 0 \/ Len(blockedByIssues) > 0
        hasInput == status # "none"
        states1 == IF hasInput THEN [issueState EXCEPT ![issueId] = status]
                   ELSE issueState
        res == SendRelations(RelationRequests(issueId, blocksIssues, blockedByIssues),
                             states1)
    IN
    IF ~hasInput /\ ~hasRelationUpdates
    THEN \* Error: No updates specified
         /\ out' = [NoOut EXCEPT !.cmd = "update", !.exit = 1]
         /\ UNCHANGED <<issueState, relations>>
    ELSE IF hasInput /\ issueState[issueId] = "absent"
    THEN \* issueUpdate is refused by the remote: gql exits
         /\ out' = [NoOut EXCEPT !.cmd = "update", !.exit = 1]
         /\ UNCHANGED <<issueState, relations>>
    ELSE /\ Cardinality(relations \cup res.created) <= MaxRelations
         /\ issueState' = states1
         /\ relations' = relations \cup res.created
         /\ out' = [NoOut EXCEPT !.cmd = "update", !.exit = res.exit,
                                 !.issue = issueId, !.blocks = blocksIssues,
                                 !.blockedBy = blockedByIssues, !.relReqs = res.sent]

\* `linear issue create --title t [--blocks t]* [--blocked-by t]*`: the
\* remote assigns the next identifier and the team's default state.
CmdIssueCreate(blocksIssues, blockedByIssues) ==
    /\ \E i \in Issues : issueState[i] = "absent"
    /\ LET id == CHOOSE i \in Issues :
                    /\ issueState[i] = "absent"
                    /\ \A j \in Issues : issueState[j] = "absent" => i <= j
           states1 == [issueState EXCEPT ![id] = "unstarted"]
           res == SendRelations(RelationRequests(id, blocksIssues, blockedByIssues),
                                states1)
       IN
       /\ Cardinality(relations \cup res.created) <= MaxRelations
       /\ issueState' = states1
       /\ relations' = relations \cup res.created
       /\ out' = [NoOut EXCEPT !.cmd = "create", !.exit = res.exit,
                               !.issue = id, !.blocks = blocksIssues,
                               !.blockedBy = blockedByIssues, !.relReqs = res.sent]

\* `linear issue close <issueId>`: moves the issue to the team's completed
\* state.
CmdIssueClose(issueId) ==
    IF issueState[issueId] = "absent"
    THEN /\ out' = [NoOut EXCEPT !.cmd = "close", !.exit = 1]
         /\ UNCHANGED <<issueState, relations>>
    ELSE /\ issueState' = [issueState EXCEPT ![issueId] = "completed"]
         /\ out' = [NoOut EXCEPT !.cmd = "close"]
         /\ UNCHANGED relations

----------------------------------------------------------------------------
(* The blocking-graph specification. *)

\* Relations other clients of the remote service may have recorded.
InitRelations ==
    {{}} \cup {{r} : r \in {q \in [issueId : 1..InitialIssues,
                                     relatedIssueId : 1..InitialIssues,
                                     type : RelationTypes \ {"blocks"}] :
                                q.issueId # q.relatedIssueId}}

InitBlockVars ==
    /\ issueState = [i \in Issues |-> IF i <= InitialIssues THEN "unstarted" ELSE "absent"]
    /\ relations \in InitRelations
    /\ out = NoOut


----------------------------------------------------------------------------
(* The sort-order commands: projects reorder, project move.  The commands  *)
(* for milestones and issues repeat the same computation over their own    *)
(* sibling sets.                                                           *)

\* Siblings are 1..NumSiblings, in the order the remote returns them.
NumSiblings == 3
\* A behaviour runs at most MaxCmds sort-order commands.
MaxCmds == 2
\* `projects reorder` is given at most MaxArgs names.
MaxArgs == 3

\* The fixed step of a sort key.
Step == 1000

Siblings == 1..NumSiblings

None == <<>>

\* The name of each sibling.
NameOf(e) ==
    CASE e = 1 -> <<"P", "1">>
      [] e = 2 -> <<"p", "2">>
      [] e = 3 -> <<"U">>
      [] OTHER -> <<"V">>

\* The names typed on the command line.
Queries == {<<"P">>, <<"2">>, <<"u">>, <<"v">>}

\* String.prototype.toLowerCase, on the letters used here.
UpperLetters == <<"A", "B", "C", "D", "E", "F", "G", "H", "I", "J", "K", "L", "M",
                  "N", "O", "P", "Q", "R", "S", "T", "U", "V", "W", "X", "Y", "Z">>

LowerLetters == <<"a", "b", "c", "d", "e", "f", "g", "h", "i", "j", "k", "l", "m",
                  "n", "o", "p", "q", "r", "s", "t", "u", "v", "w", "x", "y", "z">>

LowerChar(c) ==
    IF \E k \in 1..Len(UpperLetters) : UpperLetters[k] = c
    THEN LowerLetters[CHOOSE k \in 1..Len(UpperLetters) : UpperLetters[k] = c]
    ELSE c

ToLowerCase(str) == [k \in 1..Len(str) |-> LowerChar(str[k])]

\* String.prototype.includes.
Includes(str, sub) ==
    \E k \in 0..(Len(str) - Len(sub)) : SubSeq(str, k + 1, k + Len(sub)) = sub

\* p.name.toLowerCase().includes(name.toLowerCase())
NameMatches(e, name) == Includes(ToLowerCase(NameOf(e)), ToLowerCase(name))

\* Array.prototype.find over a list of siblings with the name predicate:
\* the first match in list order, or 0 (undefined).
Find(list, name) ==
    IF \E k \in 1..Len(list) : NameMatches(list[k], name)
    THEN list[CHOOSE k \in 1..Len(list) :
                /\ NameMatches(list[k], name)
                /\ \A j \in 1..(k - 1) : ~NameMatches(list[j], name)]
    ELSE 0

\* The projects query: the siblings in the remote's order.
FetchOrder == [k \in 1..NumSiblings |-> k]

\* Array.prototype.sort with (a, b) => (b.sortOrder || 0) - (a.sortOrder || 0):
\* descending by key, stable, so equal keys keep the fetched order.
RECURSIVE SortFrom(_, _)
SortFrom(keys, rest) ==
    IF rest = {} THEN <<>>
    ELSE LET first == CHOOSE e \in rest :
                        \A d \in rest \ {e} :
                            keys[e] > keys[d] \/ (keys[e] = keys[d] /\ e < d)
         IN <<first>> \o SortFrom(keys, rest \ {first})

SortDesc(keys) == SortFrom(keys, Siblings)

IndexOf(list, e) == CHOOSE k \in 1..Len(list) : list[k] = e

MaxOf(S) == CHOOSE m \in S : \A x \in S : x <= m

\* What a sort-order command was given and what it did.  argc: the number
\* of names given; flags: which of --before / --after were given;
\* unmatched: whether a name given for a target or for the anchor is part of
\* no sibling's name; prevTargets: the targets the command before this one
\* printed; names: the names given, for move the item's and the anchor's.
NoSout == [cmd |-> "none", argc |-> 0, flags |-> {}, unmatched |-> FALSE,
           names |-> <<>>,
           exit |-> 0, error |-> "", targets |-> <<>>,
           prevTargets |-> <<>>, item |-> 0, anchor |-> 0, neighbour |-> 0,
           dir |-> "none", sent |-> <<>>]

NoMatch(name) == \A e \in 1..NumSiblings : ~NameMatches(e, name)

\* Mutant: the keys rise along the list instead of falling.
ReorderKeyAscending(keys, i) ==
    MaxOf({keys[e] : e \in Siblings}) + Step + ((i - 1) * Step)

\* newSortOrder of the i-th listed target (i counts from 1):
\* baseSort - (i - 1) * 1000 with baseSort = max(existing keys) + 1000.
ReorderKey(keys, i) ==
    LET baseSort == MaxOf({keys[e] : e \in Siblings}) + Step
    IN baseSort - ((i - 1) * Step)

\* The matching loop of reorder: the sibling found for each name.
OrderedProjects(args) == [k \in 1..Len(args) |-> Find(FetchOrder, args[k])]

\* Mutant: reorder accepts a single name.
ReorderErrorOneName(args) ==
    IF Len(args) < 1 THEN "At least 2 project names required"
    ELSE IF \E k \in 1..Len(args) : Find(FetchOrder, args[k]) = 0
    THEN "Project not found"
    ELSE ""

\* The checks of reorder, in order: at least two names, and every name
\* found.  "" when the command goes on to write.
ReorderError(args) ==
    IF Len(args) < 2 THEN "At least 2 project names required"
    ELSE IF \E k \in 1..Len(args) : Find(FetchOrder, args[k]) = 0
    THEN "Project not found"
    ELSE ""

\* The update mutations of reorder, in the order they are sent.
ReorderMutations(keys, targets) ==
    [i \in 1..Len(targets) |-> [id |-> targets[i], sortOrder |-> ReorderKey(keys, i)]]

\* The keys after every mutation of muts has been applied, where last[e] is
\* the index of the mutation the remote applied last to sibling e.
Applied(keys, muts, last) ==
    [e \in Siblings |-> IF e \in DOMAIN last THEN muts[last[e]].sortOrder ELSE keys[e]]

\* The orders in which the remote can apply concurrent mutations differ only
\* in which mutation of a sibling is applied last.
LastApplied(muts) ==
    LET touched == {muts[i].id : i \in 1..Len(muts)}
    IN {last \in [touched -> 1..Len(muts)] : \A e \in touched : muts[last[e]].id = e}

\* `linear projects reorder <names...>`: all mutations are sent at once and
\* awaited together; here the remote accepts every one.
CmdProjectsReorder(args) ==
    LET given == [NoSout EXCEPT !.cmd = "reorder", !.argc = Len(args),
                                !.names = args,
                                !.unmatched = \E k \in 1..Len(args) : NoMatch(args[k]),
                                !.prevTargets = sout.targets]
    IN
    /\ cmds < MaxCmds
    /\ cmds' = cmds + 1
    /\ IF ReorderError(args) # ""
       THEN /\ sout' = [given EXCEPT !.exit = 1, !.error = ReorderError(args)]
            /\ UNCHANGED sortOrder
       ELSE LET targets == OrderedProjects(args)
                muts == ReorderMutations(sortOrder, targets)
            IN \E last \in LastApplied(muts) :
                /\ sortOrder' = Applied(sortOrder, muts, last)
                /\ sout' = [given EXCEPT !.targets = targets, !.sent = muts]

\* The neighbour of the anchor on the requested side of the sorted list
\* (prevProject / nextProject), or 0 when there is none.
Neighbour(list, target, dir) ==
    LET targetIdx == IndexOf(list, target)
        nbIdx == IF dir = "before" THEN targetIdx - 1 ELSE targetIdx + 1
    IN IF nbIdx \in 1..Len(list) THEN list[nbIdx] ELSE 0

\* Mutant: at a boundary the missing neighbour counts as key 0.
MoveKeyNoBoundary(keys, list, target, dir) ==
    LET nb == Neighbour(list, target, dir)
    IN IF nb # 0 THEN (keys[target] + keys[nb]) \div 2 ELSE keys[target] \div 2

\* newSortOrder of move: the midpoint of the anchor's key and its neighbour's
\* on the requested side of the sorted list, or the anchor's key +- 1000
\* when there is no neighbour on that side.
MoveKey(keys, list, target, dir) ==
    LET nb == Neighbour(list, target, dir)
    IN IF nb # 0
       THEN (keys[target] + keys[nb]) \div 2
       ELSE IF dir = "before" THEN keys[target] + Step ELSE keys[target] - Step

\* The midpoint move computes is a key of the model (an integer).
MoveKeyExact(keys, list, target, dir) ==
    LET nb == Neighbour(list, target, dir)
    IN nb # 0 => (keys[target] + keys[nb]) % 2 = 0

\* The checks of move, in order: a name, one of --before / --after, and the
\* item and the anchor found in the sorted list.  "" when the command goes
\* on to write.
MoveError(projectName, beforeName, afterName) ==
    LET projects == SortDesc(sortOrder)
        anchorName == IF beforeName # None THEN beforeName ELSE afterName
    IN IF projectName = None THEN "Project name required"
       ELSE IF beforeName = None /\ afterName = None THEN "--before or --after required"
       ELSE IF Find(projects, projectName) = 0 THEN "Project not found"
       ELSE IF Find(projects, anchorName) = 0 THEN "Target project not found"
       ELSE ""

\* `linear project move <name> --before <name> | --after <name>`.
CmdProjectMove(projectName, beforeName, afterName) ==
    LET anchorName == IF beforeName # None THEN beforeName ELSE afterName
        given == [NoSout EXCEPT
                    !.cmd = "move",
                    !.argc = IF projectName = None THEN 0 ELSE 1,
                    !.names = <<projectName, anchorName>>,
                    !.flags = {f \in {"before", "after"} :
                                  \/ f = "before" /\ beforeName # None
                                  \/ f = "after" /\ afterName # None},
                    !.unmatched = \/ projectName # None /\ NoMatch(projectName)
                                  \/ anchorName # None /\ NoMatch(anchorName),
                    !.prevTargets = sout.targets]
        error == MoveError(projectName, beforeName, afterName)
    IN
    /\ cmds < MaxCmds
    /\ cmds' = cmds + 1
    /\ IF error # ""
       THEN /\ sout' = [given EXCEPT !.exit = 1, !.error = error]
            /\ UNCHANGED sortOrder
       ELSE LET projects == SortDesc(sortOrder)
                project == Find(projects, projectName)
                target == Find(projects, anchorName)
                dir == IF beforeName # None THEN "before" ELSE "after"
                newSortOrder == MoveKey(sortOrder, projects, target, dir)
            IN /\ MoveKeyExact(sortOrder, projects, target, dir)
               /\ sortOrder' = [sortOrder EXCEPT ![project] = newSortOrder]
               /\ sout' = [given EXCEPT
                            !.item = project, !.anchor = target, !.dir = dir,
                            !.neighbour = Neighbour(projects, target, dir),
                            !.sent = <<[id |-> project, sortOrder |-> newSortOrder]>>]

----------------------------------------------------------------------------
(* `projects reorder` request by request.  The loop issues every update
   before the command waits for any of them (Promise.all); the remote
   handles the requests in any order; gql ends the process with status 1 at
   the first response that is an error, while the other requests may still
   be on their way. *)

\* run: the command in progress.  status[k] is where request k is: "sent",
\* "applied" (the remote wrote the key, the response is on its way),
\* "refused" (the remote answered with an error), "resolved" (the process
\* received the success) or "failed" (the process received an error);
\* written[e] is the request whose key sibling e holds, 0 when none was
\* applied; snapshot is the keys the command fetched.
NoRun == [pc |-> "idle", targets |-> <<>>, muts |-> <<>>, status |-> <<>>,
          written |-> [e \in 1..NumSiblings |-> 0],
          snapshot |-> [e \in 1..NumSiblings |-> 0]]

\* The remote's projectUpdate: the project takes the requested key.
ProjectUpdate(keys, req) == [keys EXCEPT ![req.id] = req.sortOrder]

\* Mutant: gql returns to the caller whatever the response.
GqlIgnoresError(ok) == "waiting"

\* gql: an error response ends the process, a good one returns to the caller.

Gql(ok) == IF ok THEN "waiting" ELSE "exited"

ReorderStart(args) ==
    LET given == [NoSout EXCEPT !.cmd = "reorder", !.argc = Len(args),
                                !.names = args,
                                !.unmatched = \E k \in 1..Len(args) : NoMatch(args[k]),
                                !.prevTargets = sout.targets]
    IN
    /\ run.pc = "idle"
    /\ cmds < MaxCmds
    /\ cmds' = cmds + 1
    /\ UNCHANGED sortOrder
    /\ IF ReorderError(args) # ""
       THEN /\ sout' = [given EXCEPT !.exit = 1, !.error = ReorderError(args)]
            /\ run' = [NoRun EXCEPT !.pc = "exited"]
       ELSE LET targets == OrderedProjects(args)
                muts == ReorderMutations(sortOrder, targets)
            IN /\ sout' = [given EXCEPT !.sent = muts]
               /\ run' = [NoRun EXCEPT !.pc = "waiting", !.targets = targets,
                                       !.muts = muts,
                                       !.status = [k \in 1..Len(muts) |-> "sent"],
                                       !.snapshot = sortOrder]

\* The remote applies request k, whether or not the process still runs.
RemoteApply(k) ==
    /\ k \in DOMAIN run.status
    /\ run.status[k] = "sent"
    /\ sortOrder' = ProjectUpdate(sortOrder, run.muts[k])
    /\ run' = [run EXCEPT !.status[k] = "applied", !.written[run.muts[k].id] = k]
    /\ UNCHANGED <<sout, cmds>>

\* The remote answers request k with an HTTP or API error.
RemoteRefuse(k) ==
    /\ k \in DOMAIN run.status
    /\ run.status[k] = "sent"
    /\ run' = [run EXCEPT !.status[k] = "refused"]
    /\ UNCHANGED <<sortOrder, sout, cmds>>

\* The process receives the success of request k.
Resolve(k) ==
    /\ run.pc = "waiting"
    /\ k \in DOMAIN run.status
    /\ run.status[k] = "applied"
    /\ run' = [run EXCEPT !.status[k] = "resolved", !.pc = Gql(TRUE)]
    /\ UNCHANGED <<sortOrder, sout, cmds>>

\* The process receives an error for request k: the remote refused it, or
\* the network failed before or after the remote handled it.
Fail(k) ==
    /\ run.pc = "waiting"
    /\ k \in DOMAIN run.status
    /\ run.status[k] \in {"sent", "applied", "refused"}
    /\ run' = [run EXCEPT !.status[k] = "failed", !.pc = Gql(FALSE)]
    /\ sout' = [sout EXCEPT !.exit = IF Gql(FALSE) = "exited" THEN 1 ELSE 0,
                            !.error = IF Gql(FALSE) = "exited" THEN "API error" ELSE ""]
    /\ UNCHANGED <<sortOrder, cmds>>

\* Every request resolved: the command prints the new order.
ReorderFinish ==
    /\ run.pc = "waiting"
    /\ \A k \in DOMAIN run.status : run.status[k] = "resolved"
    /\ run' = [run EXCEPT !.pc = "done"]
    /\ sout' = [sout EXCEPT !.targets = run.targets]
    /\ UNCHANGED <<sortOrder, cmds>>

----------------------------------------------------------------------------
(* The configuration files and the alias table.  A file is the list of its
   lines (content.split('\n'), written back with join('\n')); a line, a
   code and a name are sequences of characters. *)

UpperChar(c) ==
    IF \E k \in 1..Len(LowerLetters) : LowerLetters[k] = c
    THEN UpperLetters[CHOOSE k \in 1..Len(LowerLetters) : LowerLetters[k] = c]
    ELSE c

ToUpperCase(str) == [k \in 1..Len(str) |-> UpperChar(str[k])]

RECURSIVE TrimStart(_)
TrimStart(str) ==
    IF Len(str) > 0 /\ str[1] = " " THEN TrimStart(SubSeq(str, 2, Len(str))) ELSE str

RECURSIVE TrimEnd(_)
TrimEnd(str) ==
    IF Len(str) > 0 /\ str[Len(str)] = " "
    THEN TrimEnd(SubSeq(str, 1, Len(str) - 1)) ELSE str

\* String.prototype.trim, for the blank the model's lines can hold.
Trim(str) == TrimEnd(TrimStart(str))

\* The position of the first "=" of a line, 0 when it has none.
EqPos(line) ==
    IF \E k \in 1..Len(line) : line[k] = "="
    THEN CHOOSE k \in 1..Len(line) : line[k] = "=" /\ \A j \in 1..(k - 1) : line[j] # "="
    ELSE 0

\* const [key, ...rest] = line.split('='): the key, untrimmed.
KeyOf(line) == IF EqPos(line) = 0 THEN line ELSE SubSeq(line, 1, EqPos(line) - 1)

\* rest.join('=').trim(): everything after the first "=".
ValueOf(line) ==
    IF EqPos(line) = 0 THEN <<>> ELSE Trim(SubSeq(line, EqPos(line) + 1, Len(line)))

AliasHeader == <<"[", "a", "l", "i", "a", "s", "e", "s", "]">>

ApiKeyKey == <<"a", "p", "i", "_", "k", "e", "y">>

TeamKey == <<"t", "e", "a", "m">>

\* trimmed.startsWith('#')
IsComment(trimmed) == Len(trimmed) > 0 /\ trimmed[1] = "#"

\* trimmed.startsWith('[') && trimmed.endsWith(']')
IsSectionHeader(trimmed) ==
    Len(trimmed) > 0 /\ trimmed[1] = "[" /\ trimmed[Len(trimmed)] = "]"

\* obj[key] = value on a table kept as a function from keys to values.
Put(table, key, value) ==
    [c \in DOMAIN table \cup {key} |-> IF c = key THEN value ELSE table[c]]

\* delete obj[key]
Delete(table, key) == [c \in DOMAIN table \ {key} |-> table[c]]

NoTable == [c \in {} |-> <<>>]

\* The loop of loadConfig over the lines of the active file, from line k on.
RECURSIVE LoadLines(_, _, _)
LoadLines(lines, k, st) ==
    IF k > Len(lines) THEN st
    ELSE LET line == lines[k]
             trimmed == Trim(line)
             key == Trim(KeyOf(line))
             value == ValueOf(line)
         IN LoadLines(lines, k + 1,
              IF Len(trimmed) = 0 \/ IsComment(trimmed) THEN st
              ELSE IF trimmed = AliasHeader THEN [st EXCEPT !.inAliasSection = TRUE]
              ELSE IF IsSectionHeader(trimmed) THEN [st EXCEPT !.inAliasSection = FALSE]
              ELSE IF st.inAliasSection
                   THEN [st EXCEPT !.aliases = Put(st.aliases, ToUpperCase(key), value)]
              ELSE IF key = ApiKeyKey THEN [st EXCEPT !.apiKey = value]
              ELSE IF key = TeamKey THEN [st EXCEPT !.teamKey = value]
              ELSE st)

\* loadConfig: the local file if it exists, else the global one, is the
\* active file and the only one read; the environment fills what it left
\* empty.
LoadConfig(local, global, environment) ==
    LET configFile == IF local.exists THEN "local"
                      ELSE IF global.exists THEN "global" ELSE ""
        lines == IF configFile = "local" THEN local.lines
                 ELSE IF configFile = "global" THEN global.lines ELSE <<>>
        st == LoadLines(lines, 1, [inAliasSection |-> FALSE, aliases |-> NoTable,
                                   apiKey |-> <<>>, teamKey |-> <<>>])
    IN [configFile |-> configFile,
        aliases |-> st.aliases,
        apiKey |-> IF st.apiKey # <<>> THEN st.apiKey ELSE environment.LINEAR_API_KEY,
        teamKey |-> IF st.teamKey # <<>> THEN st.teamKey ELSE environment.LINEAR_TEAM]

\* resolveAlias: ALIASES[nameOrAlias.toUpperCase()] || nameOrAlias
ResolveAlias(aliases, nameOrAlias) ==
    IF nameOrAlias = <<>> THEN nameOrAlias
    ELSE LET upper == ToUpperCase(nameOrAlias)
         IN IF upper \in DOMAIN aliases /\ aliases[upper] # <<>>
            THEN aliases[upper] ELSE nameOrAlias

\* The scan of saveAlias from line i on: the last [aliases] header, the
\* first section header after an [aliases] header, and the last entry of
\* the code between the two (0: none).
RECURSIVE ScanAliases(_, _, _, _)
ScanAliases(lines, i, upperCode, st) ==
    IF i > Len(lines) THEN st
    ELSE LET trimmed == Trim(lines[i])
         IN ScanAliases(lines, i + 1, upperCode,
              IF trimmed = AliasHeader THEN [st EXCEPT !.aliasStart = i]
              ELSE IF st.aliasStart # 0 /\ st.aliasEnd = 0
                   THEN IF IsSectionHeader(trimmed) THEN [st EXCEPT !.aliasEnd = i]
                        ELSE IF Len(trimmed) > 0 /\ ~IsComment(trimmed)
                                /\ ToUpperCase(Trim(KeyOf(trimmed))) = upperCode
                             THEN [st EXCEPT !.existingAliasLine = i]
                        ELSE st
              ELSE st)

\* The lines saveAlias writes: the entry replaced in place, or put right
\* after the [aliases] header, or a new section appended at the end.
SaveAliasLines(lines, code, name) ==
    LET upperCode == ToUpperCase(code)
        st == ScanAliases(lines, 1, upperCode,
                          [aliasStart |-> 0, aliasEnd |-> 0, existingAliasLine |-> 0])
        aliasLine == upperCode \o <<"=">> \o name
    IN IF st.existingAliasLine # 0
       THEN [lines EXCEPT ![st.existingAliasLine] = aliasLine]
       ELSE IF st.aliasStart # 0
       THEN SubSeq(lines, 1, st.aliasStart) \o <<aliasLine>>
              \o SubSeq(lines, st.aliasStart + 1, Len(lines))
       ELSE (IF lines[Len(lines)] # <<>> THEN lines \o <<(<<>>)>> ELSE lines)
              \o <<AliasHeader, aliasLine>>

\* The filter of removeAlias from line i on: every entry of the code inside
\* an [aliases] section is dropped.
RECURSIVE RemoveAliasFrom(_, _, _, _)
RemoveAliasFrom(lines, i, upperCode, inAliasSection) ==
    IF i > Len(lines) THEN <<>>
    ELSE LET trimmed == Trim(lines[i])
         IN IF trimmed = AliasHeader
            THEN <<lines[i]>> \o RemoveAliasFrom(lines, i + 1, upperCode, TRUE)
            ELSE IF IsSectionHeader(trimmed)
            THEN <<lines[i]>> \o RemoveAliasFrom(lines, i + 1, upperCode, FALSE)
            ELSE IF /\ inAliasSection /\ Len(trimmed) > 0 /\ ~IsComment(trimmed)
                    /\ ToUpperCase(Trim(KeyOf(trimmed))) = upperCode
            THEN RemoveAliasFrom(lines, i + 1, upperCode, inAliasSection)
            ELSE <<lines[i]>> \o RemoveAliasFrom(lines, i + 1, upperCode, inAliasSection)

RemoveAliasLines(lines, code) == RemoveAliasFrom(lines, 1, ToUpperCase(code), FALSE)

\* A config file grows by one line with every alias whose code is new; the
\* commands of the model write no file longer than this.
MaxLines == 6

\* The number of configuration and alias commands run one after another.
MaxConfCmds == 3

NoFile == [exists |-> FALSE, lines |-> <<>>]

NoEnv == [LINEAR_API_KEY |-> <<>>, LINEAR_TEAM |-> <<>>]

\* What a command did.  n counts the commands run so far; configFile, apiKey, teamKey and aliases are
\* CONFIG_FILE, LINEAR_API_KEY, TEAM_KEY and ALIASES when the process ends;
\* lookup is the name a project command matched the projects with;
\* requests counts the requests sent to the remote; wrote tells whether a
\* config file was written or removed.
NoCout == [cmd |-> "none", n |-> 0, exit |-> 0, error |-> "", configFile |-> "",
           apiKey |-> <<>>, teamKey |-> <<>>, aliases |-> NoTable,
           code |-> <<>>, name |-> <<>>, lookup |-> <<>>,
           requests |-> 0, wrote |-> FALSE]

\* main up to the command: loadConfig, recorded in what the command reports.
Loaded(cmd) ==
    LET cfg == LoadConfig(localFile, globalFile, env)
    IN [NoCout EXCEPT !.cmd = cmd, !.n = cout.n + 1, !.configFile = cfg.configFile,
                      !.apiKey = cfg.apiKey, !.teamKey = cfg.teamKey,
                      !.aliases = cfg.aliases]

\* readFileSync(CONFIG_FILE).split('\n')
ReadConfigFile(configFile) ==
    IF configFile = "local" THEN localFile.lines
    ELSE IF configFile = "global" THEN globalFile.lines ELSE <<>>

\* Mutant: checkAuth lets every command through.
CheckAuthSkipped(apiKey) == ""

\* checkAuth: no API key ends the process.
CheckAuth(apiKey) == IF apiKey = <<>> THEN "Not logged in" ELSE ""

\* writeFileSync(CONFIG_FILE, lines.join('\n'))
WriteConfigFile(configFile, lines) ==
    IF configFile = "local"
    THEN /\ localFile' = [exists |-> TRUE, lines |-> lines]
         /\ UNCHANGED globalFile
    ELSE /\ globalFile' = [exists |-> TRUE, lines |-> lines]
         /\ UNCHANGED localFile

\* The check saveAlias starts with: "" when it goes on to write.
SaveAliasError(configFile) ==
    IF configFile = "" THEN "No config file found" ELSE ""

\* Mutant: removeAlias does not look the code up.
RemoveAliasErrorNoLookup(configFile, aliases, code) ==
    IF configFile = "" THEN "No config file found" ELSE ""

\* The checks removeAlias starts with: "" when it goes on to write.
RemoveAliasError(configFile, aliases, code) ==
    IF configFile = "" THEN "No config file found"
    ELSE IF \/ ToUpperCase(code) \notin DOMAIN aliases
            \/ aliases[ToUpperCase(code)] = <<>>
    THEN "Alias not found"
    ELSE ""

\* `linear alias CODE NAME`
CmdAliasSet(code, name) ==
    LET st == Loaded("alias set")
        given == [st EXCEPT !.code = code, !.name = name]
        error == IF CheckAuth(st.apiKey) # "" THEN CheckAuth(st.apiKey)
                 ELSE IF name = <<>> THEN "Code and name required"
                 ELSE SaveAliasError(st.configFile)
    IN /\ cout.n < MaxConfCmds
       /\ code # <<>>
       /\ error = "" =>
            Len(SaveAliasLines(ReadConfigFile(st.configFile), code, name)) <= MaxLines
       /\ UNCHANGED env
       /\ IF error # ""
          THEN /\ cout' = [given EXCEPT !.exit = 1, !.error = error]
               /\ UNCHANGED <<localFile, globalFile>>
          ELSE /\ WriteConfigFile(st.configFile, SaveAliasLines(ReadConfigFile(st.configFile), code, name))
               /\ cout' = [given EXCEPT !.wrote = TRUE,
                                        !.aliases = Put(st.aliases, ToUpperCase(code), name)]

\* `linear alias --remove CODE`
CmdAliasRemove(code) ==
    LET st == Loaded("alias remove")
        given == [st EXCEPT !.code = code]
        upperCode == ToUpperCase(code)
        error == IF CheckAuth(st.apiKey) # "" THEN CheckAuth(st.apiKey)
                 ELSE RemoveAliasError(st.configFile, st.aliases, code)
    IN /\ cout.n < MaxConfCmds
       /\ code # <<>>
       /\ UNCHANGED env
       /\ IF error # ""
          THEN /\ cout' = [given EXCEPT !.exit = 1, !.error = error]
               /\ UNCHANGED <<localFile, globalFile>>
          ELSE /\ WriteConfigFile(st.configFile, RemoveAliasLines(ReadConfigFile(st.configFile), code))
               /\ cout' = [given EXCEPT !.wrote = TRUE,
                                        !.aliases = Delete(st.aliases, upperCode)]

\* `linear alias` and `linear alias --list`: the projects are fetched when
\* there is an alias to print.
CmdAliasList ==
    LET st == Loaded("alias list")
    IN /\ cout.n < MaxConfCmds
       /\ UNCHANGED <<localFile, globalFile, env>>
       /\ cout' = IF CheckAuth(st.apiKey) # ""
                  THEN [st EXCEPT !.exit = 1, !.error = CheckAuth(st.apiKey)]
                  ELSE [st EXCEPT !.requests = IF DOMAIN st.aliases = {} THEN 0 ELSE 1]

\* `linear project show NAME`: the name goes through resolveAlias.
CmdProjectShow(projectNameArg) ==
    LET st == Loaded("project show")
        error == IF CheckAuth(st.apiKey) # "" THEN CheckAuth(st.apiKey)
                 ELSE IF projectNameArg = <<>> THEN "Project name required"
                 ELSE ""
    IN /\ cout.n < MaxConfCmds
       /\ UNCHANGED <<localFile, globalFile, env>>
       /\ cout' = IF error # ""
                  THEN [st EXCEPT !.name = projectNameArg, !.exit = 1, !.error = error]
                  ELSE [st EXCEPT !.name = projectNameArg, !.requests = 1,
                                  !.lookup = ResolveAlias(st.aliases, projectNameArg)]

\* `linear project complete NAME`: the projects are matched with the name
\* as given.
CmdProjectComplete(projectName) ==
    LET st == Loaded("project complete")
        error == IF CheckAuth(st.apiKey) # "" THEN CheckAuth(st.apiKey)
                 ELSE IF projectName = <<>> THEN "Project name required"
                 ELSE ""
    IN /\ cout.n < MaxConfCmds
       /\ UNCHANGED <<localFile, globalFile, env>>
       /\ cout' = IF error # ""
                  THEN [st EXCEPT !.name = projectName, !.exit = 1, !.error = error]
                  ELSE [st EXCEPT !.name = projectName, !.requests = 1,
                                  !.lookup = projectName]

\* `linear whoami`
CmdWhoami ==
    LET st == Loaded("whoami")
    IN /\ cout.n < MaxConfCmds
       /\ UNCHANGED <<localFile, globalFile, env>>
       /\ cout' = IF CheckAuth(st.apiKey) # ""
                  THEN [st EXCEPT !.exit = 1, !.error = CheckAuth(st.apiKey)]
                  ELSE [st EXCEPT !.requests = 1]

\* `linear help`, `linear` and a command main does not know.
CmdHelp(known) ==
    LET st == Loaded(IF known THEN "help" ELSE "unknown")
    IN /\ cout.n < MaxConfCmds
       /\ UNCHANGED <<localFile, globalFile, env>>
       /\ cout' = IF known THEN st
                  ELSE [st EXCEPT !.exit = 1, !.error = "Unknown command"]

\* `linear logout`: the local file, or else the global one, is removed.
CmdLogout ==
    LET st == Loaded("logout")
    IN /\ cout.n < MaxConfCmds
       /\ UNCHANGED env
       /\ localFile' = IF localFile.exists THEN NoFile ELSE localFile
       /\ globalFile' = IF ~localFile.exists /\ globalFile.exists THEN NoFile
                        ELSE globalFile
       /\ cout' = [st EXCEPT !.wrote = localFile.exists \/ globalFile.exists]

\* The file login writes.
LoginLines(apiKey, selectedKey) ==
    << <<"#", " ", "L", "i", "n", "e", "a", "r", " ", "C", "L", "I", " ",
         "c", "o", "n", "f", "i", "g", "u", "r", "a", "t", "i", "o", "n">>,
       ApiKeyKey \o <<"=">> \o apiKey,
       TeamKey \o <<"=">> \o selectedKey,
       <<>> >>

\* `linear login`: the key typed in is checked against the remote (the
\* teams query), a team is picked, and the file is written anew.
CmdLogin(saveGlobal, apiKey, selectedKey) ==
    LET st == Loaded("login")
    IN /\ cout.n < MaxConfCmds
       /\ UNCHANGED env
       /\ WriteConfigFile(IF saveGlobal THEN "global" ELSE "local",
                          LoginLines(apiKey, selectedKey))
       /\ cout' = [st EXCEPT !.requests = 1, !.wrote = TRUE, !.apiKey = apiKey]

----------------------------------------------------------------------------
(* Checklist items: issue update --check / --uncheck.  A description is a  *)
(* string, a sequence of characters among which "\n" ends a line.          *)

Max(a, b) == IF a > b THEN a ELSE b

\* String.prototype.split('\n'): the lines of a string, at least one.
RECURSIVE Split(_)
Split(str) ==
    IF \A k \in 1..Len(str) : str[k] # "\n" THEN <<str>>
    ELSE LET k == CHOOSE j \in 1..Len(str) :
                      str[j] = "\n" /\ \A m \in 1..(j - 1) : str[m] # "\n"
         IN  <<SubSeq(str, 1, k - 1)>> \o Split(SubSeq(str, k + 1, Len(str)))

\* Array.prototype.join('\n').
RECURSIVE Join(_)
Join(lines) ==
    IF lines = <<>> THEN <<>>
    ELSE IF Len(lines) = 1 THEN lines[1]
    ELSE lines[1] \o <<"\n">> \o Join(Tail(lines))

\* toMark: the marker written by --check and by --uncheck.
ToMark(isCheck) == IF isCheck THEN <<"-", " ", "[", "x", "]", " ">> ELSE <<"-", " ", "[", " ", "]", " ">>

\* Whether a checkbox marker begins at position i of the line.  The kind
\* is the pattern: "unchecked" for /- \[ \] /, "checked" for /- \[x\] /i,
\* "any" for /- \[[ x]\] /i.
MarkerAt(line, i, kind) ==
    /\ i + Len(ToMark(TRUE)) - 1 <= Len(line)
    /\ line[i] = "-" /\ line[i + 1] = " " /\ line[i + 2] = "["
    /\ line[i + 4] = "]" /\ line[i + 5] = " "
    /\ CASE kind = "unchecked" -> line[i + 3] = " "
         [] kind = "checked" -> LowerChar(line[i + 3]) = "x"
         [] OTHER -> line[i + 3] = " " \/ LowerChar(line[i + 3]) = "x"

\* fromPattern of the command.
FromPattern(isCheck) == IF isCheck THEN "unchecked" ELSE "checked"

\* RegExp.prototype.test.
Test(line, kind) == \E i \in 1..Len(line) : MarkerAt(line, i, kind)

\* String.prototype.replace with a pattern that is not global: the first
\* match is replaced, a line without a match is returned as it is.
Replace(line, kind, by) ==
    IF ~Test(line, kind) THEN line
    ELSE LET i == CHOOSE j \in 1..Len(line) :
                      /\ MarkerAt(line, j, kind)
                      /\ \A m \in 1..(j - 1) : ~MarkerAt(line, m, kind)
         IN  SubSeq(line, 1, i - 1) \o by
                 \o SubSeq(line, i + Len(ToMark(TRUE)), Len(line))

\* The indices of the lines the pattern matches, in order.
CheckboxLines(lines, kind) ==
    SelectSeq([i \in 1..Len(lines) |-> i], LAMBDA i : Test(lines[i], kind))

\* String.prototype.split(/\s+/): the words between runs of white space;
\* a string that begins or ends with white space has an empty first or
\* last word.
RECURSIVE SplitWords(_)
SplitWords(str) ==
    IF \A k \in 1..Len(str) : str[k] # " " THEN <<str>>
    ELSE LET k == CHOOSE j \in 1..Len(str) :
                      str[j] = " " /\ \A m \in 1..(j - 1) : str[m] # " "
             e == CHOOSE j \in k..Len(str) :
                      /\ \A m \in k..j : str[m] = " "
                      /\ j = Len(str) \/ str[j + 1] # " "
         IN  <<SubSeq(str, 1, k - 1)>> \o SplitWords(SubSeq(str, e + 1, Len(str)))

\* The text of a checkbox line the query is compared with.
TextOf(line) == ToLowerCase(Replace(line, "any", <<>>))

\* The score of a text that is not the query itself, as a fraction.
ScoreBy(text, queryLower) ==
    IF Includes(text, queryLower) \/ Includes(queryLower, text)
    THEN [num |-> Len(queryLower), den |-> Max(Len(text), Len(queryLower))]
    ELSE LET queryWords == SplitWords(queryLower)
             textWords == SplitWords(text)
             overlap == Cardinality(
                 {k \in 1..Len(queryWords) :
                     \E m \in 1..Len(textWords) :
                         \/ Includes(textWords[m], queryWords[k])
                         \/ Includes(queryWords[k], textWords[m])})
         IN  [num |-> overlap, den |-> Max(Len(queryWords), Len(textWords))]

\* score > bestScore.
Greater(score, best) ==
    ~best.exact /\ score.num * best.den > best.num * score.den

\* No match yet: bestMatch = null, bestScore = 0.
NoBest == [index |-> 0, exact |-> FALSE, num |-> 0, den |-> 1]

\* The loop over the checkbox lines from the k-th on: an exact match ends
\* it with the score Infinity, a later line replaces the best one only with
\* a greater score.
RECURSIVE FindBest(_, _, _, _, _)
FindBest(lines, boxes, k, queryLower, best) ==
    IF k > Len(boxes) THEN best
    ELSE LET text == TextOf(lines[boxes[k]])
             score == ScoreBy(text, queryLower)
         IN  IF text = queryLower
             THEN [index |-> boxes[k], exact |-> TRUE, num |-> 1, den |-> 1]
             ELSE IF Greater(score, best)
             THEN FindBest(lines, boxes, k + 1, queryLower,
                           [index |-> boxes[k], exact |-> FALSE,
                            num |-> score.num, den |-> score.den])
             ELSE FindBest(lines, boxes, k + 1, queryLower, best)

\* The least score that is accepted, 0.3.
Threshold == [num |-> 3, den |-> 10]

\* !(!bestMatch || bestScore < 0.3)
Accepts(best) ==
    /\ best.index # 0
    /\ best.exact \/ best.num * Threshold.den >= Threshold.num * best.den

\* The marker of every checkbox line is rewritten.
ToggleEvery(lines, index, isCheck) ==
    [i \in 1..Len(lines) |-> Replace(lines[i], FromPattern(isCheck), ToMark(isCheck))]

\* lines[bestMatch.index] = bestMatch.line.replace(fromPattern, toMark)
Toggle(lines, index, isCheck) ==
    [lines EXCEPT ![index] = Replace(lines[index], FromPattern(isCheck), ToMark(isCheck))]

\* What the command did: base is the description it worked on, boxes the
\* indices of the checkbox lines, best the match of the loop, listed the
\* lines printed under 'Available items:', input the fields of the update
\* sent (none when nothing was sent), fetched whether the description was
\* queried, scores the text and the score of each line the loop scored.
NoKout == [cmd |-> "none", exit |-> 0, error |-> "", isCheck |-> FALSE,
           query |-> <<>>, base |-> <<>>, boxes |-> <<>>, best |-> NoBest,
           scores |-> <<>>, listed |-> <<>>, input |-> {}, fetched |-> FALSE]

\* The lines the loop scores: those before the first exact match.
Scored(lines, boxes, queryLower) ==
    LET exact == {k \in 1..Len(boxes) : TextOf(lines[boxes[k]]) = queryLower}
        n == IF exact = {} THEN Len(boxes)
             ELSE (CHOOSE k \in exact : \A m \in exact : k <= m) - 1
    IN  [k \in 1..n |->
            [text |-> TextOf(lines[boxes[k]]),
             score |-> ScoreBy(TextOf(lines[boxes[k]]), queryLower)]]

\* issue update <id> [--title t] [--description d] --check q | --uncheck q
\* with a remote that accepts the update.
CmdIssueCheck(title, descriptionArg, checkText, uncheckText) ==
    /\ checkText # None \/ uncheckText # None
    /\ LET isCheck == checkText # None
           query == IF isCheck THEN checkText ELSE uncheckText
           given == (IF title # None THEN {"title"} ELSE {})
                        \cup (IF descriptionArg # None THEN {"description"} ELSE {})
           fetch == descriptionArg = None
           desc == IF fetch THEN issue.description ELSE descriptionArg
           lines == Split(desc)
           boxes == CheckboxLines(lines, FromPattern(isCheck))
           best == FindBest(lines, boxes, 1, ToLowerCase(query), NoBest)
           st == [NoKout EXCEPT !.cmd = "issue update", !.isCheck = isCheck,
                                !.query = query, !.base = desc,
                                !.boxes = boxes, !.fetched = fetch]
       IN  IF boxes = <<>>
           THEN /\ kout' = [st EXCEPT !.exit = 1, !.error = "No items found"]
                /\ UNCHANGED issue
           ELSE IF ~Accepts(best)
           THEN /\ kout' = [st EXCEPT !.exit = 1, !.best = best,
                                      !.error = "No checkbox matching",
                                      !.scores = Scored(lines, boxes, ToLowerCase(query)),
                                      !.listed = [k \in 1..Len(boxes) |->
                                                     Trim(lines[boxes[k]])]]
                /\ UNCHANGED issue
           ELSE /\ kout' = [st EXCEPT !.best = best,
                                      !.scores = Scored(lines, boxes, ToLowerCase(query)),
                                      !.input = given \cup {"description"}]
                /\ issue' = [title |-> IF title # None THEN title ELSE issue.title,
                             description |->
                                 Join(Toggle(lines, best.index, isCheck))]

----------------------------------------------------------------------------
(* The issue list: issues with its filters. *)

\* STATUS_TYPE_MAP: the state type a status name stands for.
StatusNames ==
    {<<"b", "a", "c", "k", "l", "o", "g">>,
     <<"t", "o", "d", "o">>,
     <<"i", "n", "-", "p", "r", "o", "g", "r", "e", "s", "s">>,
     <<"i", "n", "p", "r", "o", "g", "r", "e", "s", "s">>,
     <<"i", "n", "_", "p", "r", "o", "g", "r", "e", "s", "s">>,
     <<"s", "t", "a", "r", "t", "e", "d">>,
     <<"d", "o", "n", "e">>,
     <<"c", "o", "m", "p", "l", "e", "t", "e", "d">>,
     <<"c", "a", "n", "c", "e", "l", "e", "d">>,
     <<"c", "a", "n", "c", "e", "l", "l", "e", "d">>,
     <<"t", "r", "i", "a", "g", "e">>}

StatusTypeMap(s) ==
    CASE s = <<"b", "a", "c", "k", "l", "o", "g">> -> <<"b", "a", "c", "k", "l", "o", "g">>
      [] s = <<"t", "o", "d", "o">> -> <<"u", "n", "s", "t", "a", "r", "t", "e", "d">>
      [] s = <<"i", "n", "-", "p", "r", "o", "g", "r", "e", "s", "s">> -> <<"s", "t", "a", "r", "t", "e", "d">>
      [] s = <<"i", "n", "p", "r", "o", "g", "r", "e", "s", "s">> -> <<"s", "t", "a", "r", "t", "e", "d">>
      [] s = <<"i", "n", "_", "p", "r", "o", "g", "r", "e", "s", "s">> -> <<"s", "t", "a", "r", "t", "e", "d">>
      [] s = <<"s", "t", "a", "r", "t", "e", "d">> -> <<"s", "t", "a", "r", "t", "e", "d">>
      [] s = <<"d", "o", "n", "e">> -> <<"c", "o", "m", "p", "l", "e", "t", "e", "d">>
      [] s = <<"c", "o", "m", "p", "l", "e", "t", "e", "d">> -> <<"c", "o", "m", "p", "l", "e", "t", "e", "d">>
      [] s = <<"c", "a", "n", "c", "e", "l", "e", "d">> -> <<"c", "a", "n", "c", "e", "l", "e", "d">>
      [] s = <<"c", "a", "n", "c", "e", "l", "l", "e", "d">> -> <<"c", "a", "n", "c", "e", "l", "e", "d">>
      [] s = <<"t", "r", "i", "a", "g", "e">> -> <<"t", "r", "i", "a", "g", "e">>

\* PRIORITY_MAP.
PriorityNames == {<<"u", "r", "g", "e", "n", "t">>, <<"h", "i", "g", "h">>, <<"m", "e", "d", "i", "u", "m">>, <<"l", "o", "w">>, <<"n", "o", "n", "e">>}

PriorityMap(name) ==
    CASE name = <<"u", "r", "g", "e", "n", "t">> -> 1
      [] name = <<"h", "i", "g", "h">> -> 2
      [] name = <<"m", "e", "d", "i", "u", "m">> -> 3
      [] name = <<"l", "o", "w">> -> 4
      [] name = <<"n", "o", "n", "e">> -> 0

\* resolvedStatusTypes.
ResolvedStatusTypes(statusFilter) ==
    [k \in 1..Len(statusFilter) |->
        IF ToLowerCase(statusFilter[k]) \in StatusNames
        THEN StatusTypeMap(ToLowerCase(statusFilter[k]))
        ELSE ToLowerCase(statusFilter[k])]

\* Array.prototype.includes.
Has(list, x) == \E k \in 1..Len(list) : list[k] = x

\* Every given label must be on the issue.
LabelMatchesEvery(i, labelFilters) ==
    \A f \in 1..Len(labelFilters) :
        \E l \in 1..Len(i.labels) :
            ToLowerCase(i.labels[l]) = ToLowerCase(labelFilters[f])

\* labelFilters.some(lf => i.labels.nodes.some(l => ...)).
LabelMatches(i, labelFilters) ==
    \E f \in 1..Len(labelFilters) :
        \E l \in 1..Len(i.labels) :
            ToLowerCase(i.labels[l]) = ToLowerCase(labelFilters[f])

\* name?.toLowerCase().includes(resolved.toLowerCase()) for a name that may
\* be missing.
NameIncludes(name, resolved) ==
    name # None /\ Includes(ToLowerCase(name), ToLowerCase(resolved))

\* applyFilters: mine, label, project, milestone and priority, one after
\* the other; a priority name that PRIORITY_MAP does not know filters
\* nothing.
ApplyFilters(list, opts, viewerId, aliases) ==
    LET f1 == IF opts.mine
              THEN SelectSeq(list, LAMBDA i : i.assignee = viewerId)
              ELSE list
        f2 == IF Len(opts.label) > 0
              THEN SelectSeq(f1, LAMBDA i : LabelMatches(i, opts.label))
              ELSE f1
        f3 == IF opts.project # None
              THEN SelectSeq(f2, LAMBDA i :
                       NameIncludes(i.project, ResolveAlias(aliases, opts.project)))
              ELSE f2
        f4 == IF opts.milestone # None
              THEN SelectSeq(f3, LAMBDA i :
                       NameIncludes(i.projectMilestone,
                                    ResolveAlias(aliases, opts.milestone)))
              ELSE f3
        priorityFilter == ToLowerCase(opts.priority)
    IN  IF priorityFilter # None /\ priorityFilter \in PriorityNames
        THEN SelectSeq(f4, LAMBDA i : i.priority = PriorityMap(priorityFilter))
        ELSE f4

\* filterByStatus: the state's type or its lower-cased name is among the
\* types.
FilterByStatus(list, types) ==
    SelectSeq(list, LAMBDA i :
        Has(types, i.state.type) \/ Has(types, ToLowerCase(i.state.name)))

Closed == {<<"c", "o", "m", "p", "l", "e", "t", "e", "d">>, <<"c", "a", "n", "c", "e", "l", "e", "d">>}

\* The set `blocked` of cmdIssues over a list of nodes.
BlockedIn(list) ==
    {rel.relatedIssue : rel \in {r \in UNION {list[k].relations : k \in 1..Len(list)} :
                                    r.type = "blocks"}}

\* The list a branch of cmdIssues starts from, before the filters the user
\* gave: --unblocked, else --all, else --open, else every issue when a
\* status is given, else backlog and todo.
BaseList(issues, opts) ==
    IF opts.unblocked
    THEN SelectSeq(issues, LAMBDA i :
             i.state.type \notin Closed /\ i.identifier \notin BlockedIn(issues))
    ELSE IF opts.all THEN issues
    ELSE IF opts.open THEN SelectSeq(issues, LAMBDA i : i.state.type \notin Closed)
    ELSE IF Len(opts.status) > 0 THEN issues
    ELSE SelectSeq(issues, LAMBDA i : i.state.type \in {<<"b", "a", "c", "k", "l", "o", "g">>, <<"u", "n", "s", "t", "a", "r", "t", "e", "d">>})

\* The elements of a list.
Range(seq) == {seq[k] : k \in 1..Len(seq)}

\* Array.prototype.sort with a comparator, given as the function cmp of two
\* elements of the list: the stable sort, an element standing after those
\* that compare less and after the equal ones that came before it.
SortBy(list, cmp) ==
    LET n == Len(list)
        pos(k) == 1 + Cardinality({j \in 1..n :
                          \/ cmp[list[j], list[k]] < 0
                          \/ cmp[list[j], list[k]] = 0 /\ j < k})
    IN  [q \in 1..n |-> list[CHOOSE k \in 1..n : pos(k) = q]]

\* a.priority || 5: no priority sorts after Low.
PriorityRank(i) == IF i.priority = 0 THEN 5 ELSE i.priority

\* The comparator of cmdIssues: assigned to the viewer first, then by
\* priority rank, then by sortOrder, higher first.
IssuesCompare(a, b, viewerId) ==
    IF a.assignee = viewerId /\ b.assignee # viewerId THEN 0 - 1
    ELSE IF a.assignee # viewerId /\ b.assignee = viewerId THEN 1
    ELSE IF PriorityRank(a) # PriorityRank(b) THEN PriorityRank(a) - PriorityRank(b)
    ELSE b.sortOrder - a.sortOrder

\* The comparator of cmdRoadmap: by the priority number, higher first, then
\* by sortOrder, higher first.
RoadmapCompare(a, b) ==
    IF b.priority # a.priority THEN b.priority - a.priority
    ELSE b.sortOrder - a.sortOrder

\* The issues cmdRoadmap prints under a milestone of a project, or under a
\* project for the issues in no milestone: the open ones, sorted, the first
\* five.
RoadmapShown == 5

RoadmapRows(allIssues, project, milestone) ==
    LET open == SelectSeq(allIssues, LAMBDA i :
                    /\ i.project = project
                    /\ i.projectMilestone = milestone
                    /\ i.state.type \notin Closed)
        sorted == SortBy(open, [a \in Range(open), b \in Range(open) |->
                                    RoadmapCompare(a, b)])
    IN  SubSeq(sorted, 1, Min(RoadmapShown, Len(sorted)))

\* The rows cmdIssues prints.
Filtered(issues, opts, viewerId, aliases) ==
    LET types == ResolvedStatusTypes(opts.status)
        base == BaseList(issues, opts)
    IN  ApplyFilters(IF Len(types) > 0 THEN FilterByStatus(base, types) ELSE base,
                     opts, viewerId, aliases)

NoOpts == [unblocked |-> FALSE, all |-> FALSE, open |-> FALSE, mine |-> FALSE,
           status |-> <<>>, label |-> <<>>, project |-> None,
           milestone |-> None, priority |-> None]

\* What the command did: the options, the viewer, the aliases loaded, the
\* issues fetched (as cmdIssues sorts them in place) and the identifiers of
\* the rows printed.
NoLout == [cmd |-> "none", exit |-> 0, opts |-> NoOpts, viewerId |-> "",
           aliases |-> NoTable, issues |-> <<>>, rows |-> <<>>]

\* `linear issues` with its options, on the issues the remote returned;
\* the process runs the command once.
CmdIssues(issues, viewerId, opts) ==
    /\ lout.cmd = "none"
    /\ LET config == LoadConfig(localFile, globalFile, env)
           sorted == SortBy(issues, [a \in Range(issues), b \in Range(issues) |->
                                      IssuesCompare(a, b, viewerId)])
           st == [NoLout EXCEPT !.cmd = "issues", !.opts = opts, !.issues = sorted]
       IN  IF CheckAuth(config.apiKey) # ""
           THEN lout' = [st EXCEPT !.exit = 1]
           ELSE LET filtered == Filtered(sorted, opts, viewerId, config.aliases)
                IN  lout' = [st EXCEPT !.viewerId = viewerId,
                                       !.aliases = config.aliases,
                                       !.rows = [k \in 1..Len(filtered) |->
                                                    filtered[k].identifier]]

\* `linear roadmap`: the rows under one milestone (or under the issues in
\* no milestone) of one project.
CmdRoadmap(allIssues, project, milestone) ==
    /\ lout.cmd = "none"
    /\ LET config == LoadConfig(localFile, globalFile, env)
           st == [NoLout EXCEPT !.cmd = "roadmap", !.opts = lout.opts,
                                !.issues = allIssues]
       IN  IF CheckAuth(config.apiKey) # ""
           THEN lout' = [st EXCEPT !.exit = 1]
           ELSE LET rows == RoadmapRows(allIssues, project, milestone)
                IN  lout' = [st EXCEPT !.rows = [k \in 1..Len(rows) |->
                                                    rows[k].identifier]]

----------------------------------------------------------------------------
(* Git integration: slugify, and next from the selected issue on. *)

Digits == <<"0", "1", "2", "3", "4", "5", "6", "7", "8", "9">>

\* Whether the character is in [a-z0-9].
IsAlnum(c) ==
    \/ \E k \in 1..Len(LowerLetters) : LowerLetters[k] = c
    \/ \E k \in 1..Len(Digits) : Digits[k] = c

\* .replace(/[^a-z0-9]+/g, '-'): every run of other characters becomes one
\* dash.
RECURSIVE DashRuns(_)
DashRuns(str) ==
    IF str = <<>> THEN <<>>
    ELSE IF IsAlnum(Head(str)) THEN <<Head(str)>> \o DashRuns(Tail(str))
    ELSE IF Len(str) > 1 /\ ~IsAlnum(str[2]) THEN DashRuns(Tail(str))
    ELSE <<"-">> \o DashRuns(Tail(str))

\* .replace(/^-+|-+$/g, ''): the dashes at both ends are dropped.
RECURSIVE TrimDashes(_)
TrimDashes(str) ==
    IF str = <<>> THEN <<>>
    ELSE IF Head(str) = "-" THEN TrimDashes(Tail(str))
    ELSE IF str[Len(str)] = "-" THEN TrimDashes(SubSeq(str, 1, Len(str) - 1))
    ELSE str

\* The length slugify cuts the slug to.
SlugLimit == 50

\* slugify: lower case, dashes for the runs of other characters, the ends
\* trimmed, and then the cut.
Slugify(text) ==
    LET trimmed == TrimDashes(DashRuns(ToLowerCase(text)))
    IN  SubSeq(trimmed, 1, Min(SlugLimit, Len(trimmed)))

\* `${identifier}-${slugify(title)}`
BranchName(identifier, title) == identifier \o <<"-">> \o Slugify(title)

\* detectPackageManager: the package manager of the lock file found first,
\* npm for a package.json alone, none without any of them.
PackageFiles == <<"pnpm-lock.yaml", "yarn.lock", "bun.lockb", "package-lock.json",
                  "package.json">>

DetectPackageManager(files) ==
    IF "pnpm-lock.yaml" \in files THEN "pnpm"
    ELSE IF "yarn.lock" \in files THEN "yarn"
    ELSE IF "bun.lockb" \in files THEN "bun"
    ELSE IF "package-lock.json" \in files THEN "npm"
    ELSE IF "package.json" \in files THEN "npm"
    ELSE "none"

\* nrun: the command from the selected issue on.  pc is the step it is at;
\* log lists what it has run and printed so far, each with its outcome;
\* files are the package files of the repository; exit is the status once
\* pc is "exited".
NoNrun == [pc |-> "idle", title |-> <<>>, branchName |-> <<>>, dryRun |-> FALSE,
           exists |-> FALSE, files |-> {}, log |-> <<>>, exit |-> 0]

Logged(op, ok) == Append(nrun.log, [op |-> op, ok |-> ok])

\* The issue is selected: the branch name is made, a dry run prints what
\* would run and ends, an existing worktree prints the cd command and ends.
NextSelect ==
    /\ nrun.pc = "selected"
    /\ LET st == [nrun EXCEPT !.branchName = BranchName(<<"I", "-", "5">>, nrun.title)]
       IN  IF nrun.dryRun
           THEN nrun' = [st EXCEPT !.pc = "exited", !.log = Logged("dry run", TRUE)]
           ELSE IF nrun.exists
           THEN nrun' = [st EXCEPT !.pc = "exited", !.log = Logged("cd", TRUE)]
           ELSE nrun' = [st EXCEPT !.pc = "create"]

\* git worktree add <path> -b <branch>.
NextCreate(ok) ==
    /\ nrun.pc = "create"
    /\ nrun' = [nrun EXCEPT !.log = Logged("worktree add -b", ok),
                            !.pc = IF ok THEN "copy" ELSE "attach"]

\* The command goes on after a failed second attempt.
AfterAttachGoesOn(ok) == "copy"

\* The step after git worktree add <path> <branch>.
AfterAttach(ok) == IF ok THEN "copy" ELSE "exited"

\* git worktree add <path> <branch>, tried after the first attempt threw.
NextAttach(ok) ==
    /\ nrun.pc = "attach"
    /\ nrun' = [nrun EXCEPT !.log = Logged("worktree add", ok),
                            !.pc = AfterAttach(ok),
                            !.exit = IF AfterAttach(ok) = "exited" THEN 1 ELSE 0]

\* copyWorktreeIncludes.
NextCopy ==
    /\ nrun.pc = "copy"
    /\ nrun' = [nrun EXCEPT !.log = Logged("copy includes", TRUE), !.pc = "install"]

\* <pm> install when a package manager is detected; a failure is a warning.
NextInstall(ok) ==
    /\ nrun.pc = "install"
    /\ IF DetectPackageManager(nrun.files) # "none"
       THEN nrun' = [nrun EXCEPT !.log = Logged("install", ok), !.pc = "cd"]
       ELSE nrun' = [nrun EXCEPT !.pc = "cd"]

\* The cd command for the wrapper function.
NextCd ==
    /\ nrun.pc = "cd"
    /\ nrun' = [nrun EXCEPT !.log = Logged("cd", TRUE), !.pc = "exited"]

----------------------------------------------------------------------------
(* The specifications. *)

\* The other variables of the model while the blocking-graph and the
\* sort-order commands run.
ExtIdle ==
    /\ localFile = NoFile
    /\ globalFile = NoFile
    /\ env = NoEnv
    /\ cout = NoCout
    /\ issue = [title |-> <<>>, description |-> <<>>]
    /\ kout = NoKout
    /\ lout = NoLout
    /\ nrun = NoNrun

\* The keys the siblings start with: negative, zero and positive, and
\* pairwise distinct.
InitKeys == {k * Step : k \in (0 - 1)..(NumSiblings - 2)}

InitBlocking ==
    /\ InitBlockVars
    /\ sortOrder = [e \in Siblings |-> e * Step]
    /\ sout = NoSout
    /\ cmds = 0
    /\ run = NoRun
    /\ ExtIdle

InitSort ==
    /\ sortOrder \in {f \in [Siblings -> InitKeys] :
                        \A a, b \in Siblings : a # b => f[a] # f[b]}
    /\ sout = NoSout
    /\ cmds = 0
    /\ issueState = [i \in Issues |-> "unstarted"]
    /\ relations = {}
    /\ out = NoOut
    /\ run = NoRun
    /\ ExtIdle

NextBlocking ==
    \/ \E fetched \in SUBSET Issues :
          CmdIssuesUnblocked(fetched) /\ UNCHANGED <<sortVars, run, extVars>>
    \/ \E i \in Issues, s \in StatusInputs, f \in FlagValues :
          CmdIssueUpdate(i, s, f[1], f[2]) /\ UNCHANGED <<sortVars, run, extVars>>
    \/ \E f \in FlagValues : CmdIssueCreate(f[1], f[2]) /\ UNCHANGED <<sortVars, run, extVars>>
    \/ \E i \in Issues : CmdIssueClose(i) /\ UNCHANGED <<sortVars, run, extVars>>

SpecBlocking == InitBlocking /\ [][NextBlocking]_vars

ArgLists == UNION {[1..n -> Queries] : n \in 0..MaxArgs}

NextSort ==
    \/ \E args \in ArgLists : CmdProjectsReorder(args) /\ UNCHANGED <<blockVars, run, extVars>>
    \/ \E name \in Queries \cup {None}, b \in Queries \cup {None},
          a \in Queries \cup {None} :
          CmdProjectMove(name, b, a) /\ UNCHANGED <<blockVars, run, extVars>>

SpecSort == InitSort /\ [][NextSort]_vars

NextReorder ==
    \/ \E args \in ArgLists : ReorderStart(args) /\ UNCHANGED <<blockVars, extVars>>
    \/ \E k \in 1..MaxArgs : RemoteApply(k) /\ UNCHANGED <<blockVars, extVars>>
    \/ \E k \in 1..MaxArgs : RemoteRefuse(k) /\ UNCHANGED <<blockVars, extVars>>
    \/ \E k \in 1..MaxArgs : Resolve(k) /\ UNCHANGED <<blockVars, extVars>>
    \/ \E k \in 1..MaxArgs : Fail(k) /\ UNCHANGED <<blockVars, extVars>>
    \/ ReorderFinish /\ UNCHANGED <<blockVars, extVars>>

SpecReorder == InitSort /\ [][NextReorder]_vars

\* The sort and blocking variables while the configuration commands run.
CoreIdle ==
    /\ issueState = [i \in Issues |-> "unstarted"]
    /\ relations = {}
    /\ out = NoOut
    /\ sortOrder = [e \in Siblings |-> e * Step]
    /\ sout = NoSout
    /\ cmds = 0
    /\ run = NoRun

coreVars == <<issueState, relations, out, sortOrder, sout, cmds, run>>

\* The files the commands start from.  Local: none; or a key, a comment, an
\* [aliases] section holding V2 and a later section whose line A=M is no
\* alias; or a key alone; or a key and two [aliases] sections, the second
\* holding A.  Global: none; or a team and an [aliases] section
\* holding A; or a key, a team and an empty last line.
LocalFiles ==
    {NoFile,
     [exists |-> TRUE,
      lines |-> << ApiKeyKey \o <<"=", "l">>, <<"#", "c">>, AliasHeader,
                   <<"V", "2", "=", "N">>, <<"[", "x", "]">>, <<"A", "=", "M">> >>],
     [exists |-> TRUE, lines |-> << ApiKeyKey \o <<"=", "l">> >>],
     [exists |-> TRUE,
      lines |-> << ApiKeyKey \o <<"=", "l">>, AliasHeader, <<"[", "x", "]">>,
                   AliasHeader, <<"A", "=", "M">> >>]}

GlobalFiles ==
    {NoFile,
     [exists |-> TRUE,
      lines |-> << TeamKey \o <<"=", "G">>, AliasHeader, <<"A", "=", "M">> >>],
     [exists |-> TRUE,
      lines |-> << ApiKeyKey \o <<"=", "g">>, TeamKey \o <<"=", "G">>, <<>> >>]}

Envs == {NoEnv, [LINEAR_API_KEY |-> <<"e">>, LINEAR_TEAM |-> <<"E">>]}

\* The codes and names given on the command line.
Codes == {<<"v", "2">>, <<"A">>, <<"a", "=", "b">>}

Names == {<<"N">>, <<"M">>}

\* The project names given to project show and project complete.
ProjectArgs == {<<"v", "2">>, <<"N">>, None}

InitConfig ==
    /\ CoreIdle
    /\ localFile \in LocalFiles
    /\ globalFile \in GlobalFiles
    /\ env \in Envs
    /\ cout = NoCout
    /\ issue = [title |-> <<>>, description |-> <<>>]
    /\ kout = NoKout
    /\ lout = NoLout
    /\ nrun = NoNrun

NextConfig ==
    \/ \E code \in Codes, name \in Names :
          CmdAliasSet(code, name) /\ UNCHANGED <<coreVars, checkVars, listVars, nextVars>>
    \/ \E code \in Codes : CmdAliasRemove(code) /\ UNCHANGED <<coreVars, checkVars, listVars, nextVars>>
    \/ CmdAliasList /\ UNCHANGED <<coreVars, checkVars, listVars, nextVars>>
    \/ \E arg \in ProjectArgs : CmdProjectShow(arg) /\ UNCHANGED <<coreVars, checkVars, listVars, nextVars>>
    \/ \E arg \in ProjectArgs : CmdProjectComplete(arg) /\ UNCHANGED <<coreVars, checkVars, listVars, nextVars>>
    \/ CmdWhoami /\ UNCHANGED <<coreVars, checkVars, listVars, nextVars>>
    \/ \E known \in BOOLEAN : CmdHelp(known) /\ UNCHANGED <<coreVars, checkVars, listVars, nextVars>>
    \/ CmdLogout /\ UNCHANGED <<coreVars, checkVars, listVars, nextVars>>
    \/ \E saveGlobal \in BOOLEAN :
          CmdLogin(saveGlobal, <<"k">>, <<"T">>) /\ UNCHANGED <<coreVars, checkVars, listVars, nextVars>>

SpecConfig == InitConfig /\ [][NextConfig]_vars

\* The descriptions the issue starts with: text, an unchecked and a checked
\* item and an empty last line; a long item, an item checked with a capital
\* X and a short item; markers inside a line, an item without text and a
\* line with two markers; a checked and an unchecked item with the same
\* text; and the empty description.
Descriptions ==
    {<<"t", "\n", "-", " ", "[", " ", "]", " ", "a", "b", "\n", "-", " ", "[", "x", "]", " ", "c", "d", "\n">>,
     <<"-", " ", "[", " ", "]", " ", "a", "b", "c", "d", "e", "f", "g", "h", "\n", "-", " ", "[", "X", "]", " ", "a", "b", " ", "c", "d", "\n", "-", " ", "[", " ", "]", " ", "a", "b">>,
     <<"*", " ", "-", " ", "[", " ", "]", " ", "b", "\n", "-", " ", "[", " ", "]", " ", "\n", " ", "-", " ", "[", "x", "]", " ", "-", " ", "[", " ", "]", " ", "a", "b", " ">>,
     <<"-", " ", "[", "x", "]", " ", "a", "b", "\n", "-", " ", "[", " ", "]", " ", "a", "b">>,
     <<>>}

\* The texts given to --check and --uncheck: never empty and never
\* beginning with "-" (parseArgs).
CheckQueries ==
    {<<"a", "b">>,
     <<"A", "B">>,
     <<"a", "b", "c", "d", "e", "f", "g", "h">>,
     <<"c", "d", " ", "e", "f">>,
     <<"z", "z">>,
     <<"b">>}

\* The descriptions given with --description.
DescriptionArgs == {None, <<"n", "\n", "-", " ", "[", " ", "]", " ", "a", "b", "\n", "-", " ", "[", "x", "]", " ", "z", "z">>}

Titles == {None, <<"T">>}

InitCheck ==
    /\ CoreIdle
    /\ localFile = NoFile
    /\ globalFile = NoFile
    /\ env = NoEnv
    /\ cout = NoCout
    /\ issue \in [title : {<<"t">>}, description : Descriptions]
    /\ kout = NoKout
    /\ lout = NoLout
    /\ nrun = NoNrun

NextCheck ==
    \E title \in Titles, d \in DescriptionArgs, q \in CheckQueries, isCheck \in BOOLEAN :
        /\ CmdIssueCheck(title, d, IF isCheck THEN q ELSE None,
                         IF isCheck THEN None ELSE q)
        /\ UNCHANGED <<coreVars, confVars, listVars, nextVars>>

SpecCheck == InitCheck /\ [][NextCheck]_vars

\* The issues the remote returns, in the remote's order: the three issues
\* A (bug, todo), B (bug, done) and C (feature, todo); and eight issues that
\* differ in state (G is started in a state named Todo), labels, project,
\* milestone, priority, sort order, assignee and relations.
IssueLists ==
    {<< [identifier |-> "A", state |-> [type |-> <<"u", "n", "s", "t", "a", "r", "t", "e", "d">>, name |-> <<"T", "o", "d", "o">>],
       labels |-> <<<<"b", "u", "g">>>>, project |-> None, projectMilestone |-> None,
       priority |-> 0, sortOrder |-> 1, assignee |-> "",
       relations |-> {}],
      [identifier |-> "B", state |-> [type |-> <<"c", "o", "m", "p", "l", "e", "t", "e", "d">>, name |-> <<"D", "o", "n", "e">>],
       labels |-> <<<<"b", "u", "g">>>>, project |-> None, projectMilestone |-> None,
       priority |-> 0, sortOrder |-> 3, assignee |-> "",
       relations |-> {}],
      [identifier |-> "C", state |-> [type |-> <<"u", "n", "s", "t", "a", "r", "t", "e", "d">>, name |-> <<"T", "o", "d", "o">>],
       labels |-> <<<<"f", "e", "a", "t", "u", "r", "e">>>>, project |-> None, projectMilestone |-> None,
       priority |-> 0, sortOrder |-> 2, assignee |-> "",
       relations |-> {}] >>,
     << [identifier |-> "A", state |-> [type |-> <<"u", "n", "s", "t", "a", "r", "t", "e", "d">>, name |-> <<"T", "o", "d", "o">>],
       labels |-> <<<<"b", "u", "g">>>>, project |-> <<"N">>, projectMilestone |-> None,
       priority |-> 0, sortOrder |-> 1, assignee |-> "",
       relations |-> {}],
      [identifier |-> "F", state |-> [type |-> <<"u", "n", "s", "t", "a", "r", "t", "e", "d">>, name |-> <<"T", "o", "d", "o">>],
       labels |-> <<<<"b", "u", "g">>>>, project |-> <<"N">>, projectMilestone |-> <<"M", "1">>,
       priority |-> 2, sortOrder |-> 1, assignee |-> "me",
       relations |-> {[type |-> "is_blocked_by", relatedIssue |-> "D"]}],
      [identifier |-> "B", state |-> [type |-> <<"c", "o", "m", "p", "l", "e", "t", "e", "d">>, name |-> <<"D", "o", "n", "e">>],
       labels |-> <<<<"b", "u", "g">>>>, project |-> <<"N">>, projectMilestone |-> <<"M", "1">>,
       priority |-> 4, sortOrder |-> 5, assignee |-> "",
       relations |-> {}],
      [identifier |-> "D", state |-> [type |-> <<"s", "t", "a", "r", "t", "e", "d">>, name |-> <<"I", "n", " ", "R", "e", "v", "i", "e", "w">>],
       labels |-> <<<<"B", "u", "g">>, <<"f", "e", "a", "t", "u", "r", "e">>>>, project |-> <<"N">>, projectMilestone |-> <<"M", "1">>,
       priority |-> 2, sortOrder |-> 2, assignee |-> "me",
       relations |-> {[type |-> "blocks", relatedIssue |-> "E"]}],
      [identifier |-> "C", state |-> [type |-> <<"u", "n", "s", "t", "a", "r", "t", "e", "d">>, name |-> <<"T", "o", "d", "o">>],
       labels |-> <<<<"f", "e", "a", "t", "u", "r", "e">>>>, project |-> <<"N">>, projectMilestone |-> <<"M", "1">>,
       priority |-> 1, sortOrder |-> 0, assignee |-> "",
       relations |-> {}],
      [identifier |-> "E", state |-> [type |-> <<"b", "a", "c", "k", "l", "o", "g">>, name |-> <<"B", "a", "c", "k", "l", "o", "g">>],
       labels |-> <<>>, project |-> <<"O", "t", "h", "e", "r">>, projectMilestone |-> None,
       priority |-> 0, sortOrder |-> 0 - 1, assignee |-> "other",
       relations |-> {}],
      [identifier |-> "G", state |-> [type |-> <<"s", "t", "a", "r", "t", "e", "d">>, name |-> <<"T", "o", "d", "o">>],
       labels |-> <<>>, project |-> <<"N">>, projectMilestone |-> <<"M", "1">>,
       priority |-> 4, sortOrder |-> 7, assignee |-> "",
       relations |-> {}],
      [identifier |-> "H", state |-> [type |-> <<"b", "a", "c", "k", "l", "o", "g">>, name |-> <<"B", "a", "c", "k", "l", "o", "g">>],
       labels |-> <<>>, project |-> <<"O", "t", "h", "e", "r">>, projectMilestone |-> None,
       priority |-> 3, sortOrder |-> 0, assignee |-> "",
       relations |-> {}] >>}

\* The options given: each filter class absent or present, the label and
\* the status class also with two values.  A run starts with the options
\* and the remote's issues chosen, and the command applies them.
OptsSets ==
    [unblocked : BOOLEAN, all : BOOLEAN, open : BOOLEAN, mine : BOOLEAN,
     status : {<<>>, <<<<"t", "o", "d", "o">>>>, <<<<"D", "o", "n", "e">>, <<"i", "n", " ", "r", "e", "v", "i", "e", "w">>>>},
     label : {<<>>, <<<<"B", "U", "G">>>>, <<<<"b", "u", "g">>, <<"f", "e", "a", "t", "u", "r", "e">>>>},
     project : {None, <<"v", "2">>},
     milestone : {None, <<"m">>},
     priority : {None, <<"H", "i", "g", "h">>, <<"s", "o", "o", "n">>}]

InitList ==
    /\ CoreIdle
    /\ localFile = [exists |-> TRUE,
                    lines |-> << ApiKeyKey \o <<"=", "l">>, AliasHeader,
                                 <<"V", "2", "=", "N">> >>]
    /\ globalFile = NoFile
    /\ env = NoEnv
    /\ cout = NoCout
    /\ issue = [title |-> <<>>, description |-> <<>>]
    /\ kout = NoKout
    /\ \E issues \in IssueLists, opts \in OptsSets :
          lout = [NoLout EXCEPT !.issues = issues, !.opts = opts]
    /\ nrun = NoNrun

NextList ==
    \/ CmdIssues(lout.issues, "me", lout.opts)
           /\ UNCHANGED <<coreVars, confVars, checkVars, nextVars>>
    \/ \E project \in {<<"N">>, <<"O", "t", "h", "e", "r">>}, milestone \in {None, <<"M", "1">>} :
           CmdRoadmap(lout.issues, project, milestone)
               /\ UNCHANGED <<coreVars, confVars, checkVars, nextVars>>

SpecList == InitList /\ [][NextList]_vars

\* The titles of the selected issue: plain; with punctuation at both ends;
\* without a letter or digit; with a space as its 50th character; longer
\* than 50 letters; and one letter.
Titles29 ==
    {<<"F", "i", "x", " ", "b", "u", "g">>,
     <<"-", "-", "A", "d", "d", ":", " ", "A", "P", "I", "!">>,
     <<"!", "!", "!">>,
     <<"a", "a", "a", "a", "a", "a", "a", "a", "a", "a", "a", "a", "a", "a", "a", "a", "a", "a", "a", "a", "a", "a", "a", "a", "a", "a", "a", "a", "a", "a", "a", "a", "a", "a", "a", "a", "a", "a", "a", "a", "a", "a", "a", "a", "a", "a", "a", "a", "a", " ", "b">>,
     <<"x", "x", "x", "x", "x", "x", "x", "x", "x", "x", "x", "x", "x", "x", "x", "x", "x", "x", "x", "x", "x", "x", "x", "x", "x", "x", "x", "x", "x", "x", "x", "x", "x", "x", "x", "x", "x", "x", "x", "x", "x", "x", "x", "x", "x", "x", "x", "x", "x", "x", "x", "x">>,
     <<"a">>}

InitNext ==
    /\ CoreIdle
    /\ localFile = NoFile
    /\ globalFile = NoFile
    /\ env = NoEnv
    /\ cout = NoCout
    /\ issue = [title |-> <<>>, description |-> <<>>]
    /\ kout = NoKout
    /\ lout = NoLout
    /\ \E title \in Titles29, dryRun \in BOOLEAN, exists \in BOOLEAN,
          files \in {{}, {"package.json"}, {"yarn.lock", "package.json"}} :
          nrun = [NoNrun EXCEPT !.pc = "selected", !.title = title,
                                !.dryRun = dryRun, !.exists = exists,
                                !.files = files]

NextNext ==
    \/ NextSelect /\ UNCHANGED <<coreVars, confVars, checkVars, listVars>>
    \/ \E ok \in BOOLEAN : NextCreate(ok) /\ UNCHANGED <<coreVars, confVars, checkVars, listVars>>
    \/ \E ok \in BOOLEAN : NextAttach(ok) /\ UNCHANGED <<coreVars, confVars, checkVars, listVars>>
    \/ NextCopy /\ UNCHANGED <<coreVars, confVars, checkVars, listVars>>
    \/ \E ok \in BOOLEAN : NextInstall(ok) /\ UNCHANGED <<coreVars, confVars, checkVars, listVars>>
    \/ NextCd /\ UNCHANGED <<coreVars, confVars, checkVars, listVars>>

SpecNext == InitNext /\ [][NextNext]_vars

----------------------------------------------------------------------------
(* Properties of the blocking-graph commands. *)

Open(i) == issueState[i] \notin {"completed", "canceled"}

\* The relations of type blocks on the remote that name i as target and are
\* carried by an issue of the window.
BlockersIn(window, i) ==
    {r \in relations : r.type = "blocks" /\ r.relatedIssueId = i /\ r.issueId \in window}

Count(seq, x) == Cardinality({k \in 1..Len(seq) : seq[k] = x})

C2_ResolvedBlockerUnblocks ==
    out.cmd = "issues" =>
        \A b \in out.fetched :
            (/\ Open(b)
             /\ \A r \in BlockersIn(Issues, b) : issueState[r.issueId] = "completed")
            => b \in out.listed

\* C3: a successful issue update or issue create requests, for every pair
\* (a, b), exactly as many relations of type blocks from a to b as its flags
\* name (--blocks b on a, --blocked-by a on b), and nothing else; the
\* requested relations are on the remote; and a listing that fetches both
\* ends of a blocks relation excludes its target, and lists its source
\* exactly when the source is open and not itself the target of a fetched
\* blocks relation.
C3_BlocksDirection ==
    /\ (out.cmd \in {"update", "create"} /\ out.exit = 0) =>
        /\ \A k \in 1..Len(out.relReqs) :
            /\ out.relReqs[k].type = "blocks"
            /\ out.relReqs[k] \in relations
        /\ \A a \in Issues, b \in Issues :
            Count(out.relReqs, [issueId |-> a, relatedIssueId |-> b, type |-> "blocks"])
              = (IF a = out.issue THEN Count(out.blocks, b) ELSE 0)
                + (IF b = out.issue THEN Count(out.blockedBy, a) ELSE 0)
    /\ out.cmd = "issues" =>
        \A r \in relations :
            (r.type = "blocks" /\ {r.issueId, r.relatedIssueId} \subseteq out.fetched) =>
                /\ r.relatedIssueId \notin out.listed
                /\ r.issueId \in out.listed <=>
                      (Open(r.issueId) /\ BlockersIn(out.fetched, r.issueId) = {})

\* A listing, after a relation "a blocks b" was created, that fetches both:
\* b is left out and a is listed.
C3_Witness ==
    /\ out.cmd = "issues"
    /\ \E r \in relations :
        /\ r.type = "blocks"
        /\ {r.issueId, r.relatedIssueId} \subseteq out.fetched
        /\ Open(r.relatedIssueId)
        /\ r.relatedIssueId \notin out.listed
        /\ r.issueId \in out.listed

\* C4: an open fetched issue that carries a relation of type is_blocked_by
\* is not listed by `issues --unblocked`.
C4_IsBlockedByExcludes ==
    out.cmd = "issues" =>
        \A i \in out.fetched :
            (Open(i) /\ \E r \in relations : r.issueId = i /\ r.type = "is_blocked_by")
            => i \notin out.listed

----------------------------------------------------------------------------
(* Properties of the sort-order commands. *)

MinOf(S) == CHOOSE m \in S : \A x \in S : m <= x

KeySet(keys) == {keys[e] : e \in Siblings}

\* The sibling set read back sorted descending by key, cut down to the
\* members of S.
ReadBack(keys, S) == SelectSeq(SortDesc(keys), LAMBDA e : e \in S)

Distinct(seq) == \A j, k \in 1..Len(seq) : j # k => seq[j] # seq[k]

\* A step in which a move command wrote a key.
MoveStep == cmds' = cmds + 1 /\ sout'.cmd = "move" /\ sout'.exit = 0

\* A step in which a reorder command wrote its keys.
ReorderStep == cmds' = cmds + 1 /\ sout'.cmd = "reorder" /\ sout'.exit = 0

\* C5: when the anchor has a neighbour on the requested side of the
\* descending order, a move gives the moved item a key strictly between the
\* anchor's key and that neighbour's key, the item reads back on the
\* requested side of the anchor, and no other sibling's key changes.
C5_MoveBetween ==
    [][MoveStep =>
        LET x == sout'.item
            a == sout'.anchor
            n == Neighbour(SortDesc(sortOrder), a, sout'.dir)
        IN n # 0 =>
            /\ \/ sortOrder[a] < sortOrder'[x] /\ sortOrder'[x] < sortOrder[n]
               \/ sortOrder[n] < sortOrder'[x] /\ sortOrder'[x] < sortOrder[a]
            /\ (x # a /\ sout'.dir = "before") => sortOrder'[x] > sortOrder'[a]
            /\ (x # a /\ sout'.dir = "after") => sortOrder'[x] < sortOrder'[a]
            /\ \A e \in Siblings \ {x} : sortOrder'[e] = sortOrder[e]
    ]_vars

\* C6: a move before the first sibling of the descending order gives the
\* moved item the current maximum key plus 1000, a move after the last one
\* the current minimum key minus 1000; the new key lies strictly beyond
\* every current key, and no other sibling's key changes.
C6_BoundaryStep ==
    [][MoveStep =>
        LET x == sout'.item
            a == sout'.anchor
            list == SortDesc(sortOrder)
        IN /\ (sout'.dir = "before" /\ list[1] = a) =>
                /\ sortOrder'[x] = MaxOf(KeySet(sortOrder)) + 1000
                /\ \A e \in Siblings : sortOrder'[x] > sortOrder[e]
                /\ \A e \in Siblings \ {x} : sortOrder'[e] = sortOrder[e]
           /\ (sout'.dir = "after" /\ list[NumSiblings] = a) =>
                /\ sortOrder'[x] = MinOf(KeySet(sortOrder)) - 1000
                /\ \A e \in Siblings : sortOrder'[x] < sortOrder[e]
                /\ \A e \in Siblings \ {x} : sortOrder'[e] = sortOrder[e]
    ]_vars

\* A move of another sibling before the first one: no neighbour was used and
\* the moved item now holds the greatest key, 1000 above the anchor's.
C6_Witness ==
    /\ sout.cmd = "move" /\ sout.exit = 0
    /\ sout.dir = "before" /\ sout.neighbour = 0 /\ sout.item # sout.anchor
    /\ sortOrder[sout.item] = sortOrder[sout.anchor] + 1000
    /\ \A e \in Siblings \ {sout.item} : sortOrder[e] < sortOrder[sout.item]

\* C7: after a reorder of pairwise distinct targets, the sibling set read
\* back sorted descending by key shows the targets in the listed order;
\* and when the command before it was a reorder of the same targets, the
\* read-back order of the siblings is the same as before it while every
\* target's key differs.
C7_ReorderReadBack ==
    [][(ReorderStep /\ Distinct(sout'.targets)) =>
        /\ ReadBack(sortOrder', Range(sout'.targets)) = sout'.targets
        /\ (sout.cmd = "reorder" /\ sout.exit = 0 /\ sout.targets = sout'.targets) =>
            /\ ReadBack(sortOrder', Range(sout'.targets))
                 = ReadBack(sortOrder, Range(sout'.targets))
            /\ \A t \in Range(sout'.targets) : sortOrder'[t] # sortOrder[t]
    ]_vars

\* The second of two reorders of the same three targets.
C7_Witness ==
    /\ sout.cmd = "reorder" /\ sout.exit = 0
    /\ Len(sout.targets) = 3 /\ Distinct(sout.targets)
    /\ sout.prevTargets = sout.targets
    /\ ReadBack(sortOrder, Siblings) = sout.targets

KeysDistinct(keys) == \A a, b \in Siblings : a # b => keys[a] # keys[b]

\* C8: a successful move, or a successful reorder of pairwise distinct
\* targets, that starts from pairwise distinct sort keys leaves the sort
\* keys of the siblings pairwise distinct.
C8_KeysDistinct ==
    [][(/\ KeysDistinct(sortOrder)
        /\ MoveStep \/ (ReorderStep /\ Distinct(sout'.targets)))
       => KeysDistinct(sortOrder')
    ]_vars

\* C9: once the process has received an error for one of the update
\* requests of a reorder, it has ended with status 1 at that first error;
\* every sibling holds the key of the last request the remote applied for
\* it, or the key it had when no request for it was applied; and the
\* requests issued are the N computed from the fetched keys, one per name
\* given and none to restore a key.
C9_PartialFailure ==
    (\E k \in DOMAIN run.status : run.status[k] = "failed") =>
        /\ run.pc = "exited"
        /\ sout.exit = 1
        /\ Cardinality({k \in DOMAIN run.status : run.status[k] = "failed"}) = 1
        /\ \A k \in DOMAIN run.status :
              run.status[k] \in {"applied", "resolved"} => run.written[run.muts[k].id] # 0
        /\ \A e \in Siblings :
              sortOrder[e] = IF run.written[e] = 0 THEN run.snapshot[e]
                             ELSE run.muts[run.written[e]].sortOrder
        /\ sout.sent = ReorderMutations(run.snapshot, run.targets)
        /\ Len(sout.sent) = sout.argc

\* A reorder of three distinct targets that ended at an error after the
\* remote had applied one request and refused another, while the third is
\* still on its way: the applied key is in effect, the others are as fetched.
C9_Witness ==
    /\ run.pc = "exited" /\ sout.exit = 1
    /\ Len(run.targets) = 3 /\ Distinct(run.targets)
    /\ \E i, j, k \in DOMAIN run.status :
        /\ run.status[i] = "resolved" /\ run.status[j] = "failed"
        /\ run.status[k] = "sent"
        /\ sortOrder[run.muts[i].id] = run.muts[i].sortOrder
        /\ sortOrder[run.muts[i].id] # run.snapshot[run.muts[i].id]
        /\ sortOrder[run.muts[j].id] = run.snapshot[run.muts[j].id]

\* C10: a reorder given fewer than two names, a move given neither --before
\* nor --after, and a reorder or move one of whose names matches no sibling
\* exit with failure; and a command that exits with failure has sent no
\* update and has left every key as it was.
C10_ValidateBeforeWrite ==
    [][cmds' = cmds + 1 =>
        /\ (sout'.cmd = "reorder" /\ sout'.argc < 2) => sout'.exit = 1
        /\ (sout'.cmd = "move" /\ sout'.flags = {}) => sout'.exit = 1
        /\ sout'.unmatched => sout'.exit = 1
        /\ sout'.exit = 1 => (sout'.sent = <<>> /\ sortOrder' = sortOrder)
    ]_vars

\* A reorder that named a sibling that does not exist, after another
\* command: it failed and sent nothing.
C10_Witness ==
    /\ cmds = 2
    /\ sout.cmd = "reorder" /\ sout.exit = 1
    /\ sout.argc >= 2 /\ sout.unmatched
    /\ sout.sent = <<>>

----------------------------------------------------------------------------
(* Properties of the configuration and alias commands. *)

\* The alias table the next command loads.
StoredAliases == LoadConfig(localFile, globalFile, env).aliases

\* A code as given, in upper case and in lower case.
CaseVariants(code) == {code, ToUpperCase(code), ToLowerCase(code)}

\* C11: after a successful `alias c n`, the next command resolves c, in any
\* letter case, to n; after a successful `alias --remove c` it resolves c,
\* in any letter case, to what it was given; and a string that is not a
\* stored code resolves to itself.
C11_AliasRoundTrip ==
    /\ (cout.cmd = "alias set" /\ cout.exit = 0) =>
          \A v \in CaseVariants(cout.code) : ResolveAlias(StoredAliases, v) = cout.name
    /\ (cout.cmd = "alias remove" /\ cout.exit = 0) =>
          \A v \in CaseVariants(cout.code) : ResolveAlias(StoredAliases, v) = v
    /\ \A arg \in Codes \cup Names :
          ToUpperCase(arg) \notin DOMAIN StoredAliases =>
              ResolveAlias(StoredAliases, arg) = arg

\* A step in which an alias command ran.
AliasStep == cout'.n = cout.n + 1 /\ cout'.cmd \in {"alias set", "alias remove"}

\* The lines of the file the command of this step had as its active file,
\* before and after the step.
ActiveBefore == ReadConfigFile(cout'.configFile)

ActiveAfter == IF cout'.configFile = "local" THEN localFile'.lines ELSE globalFile'.lines

\* C12: `alias c n` and `alias --remove c` fail when no config file is
\* active, with the error "No config file found" when an API key is there;
\* `alias --remove c` fails when c is not in the alias table, with the error
\* "Alias not found" when a key and a file are there; and an alias command
\* that fails writes no file and leaves the alias table as it was loaded.
C12_AliasErrorsKeepState ==
    [][AliasStep =>
        /\ cout'.configFile = "" =>
              /\ cout'.exit = 1
              /\ cout'.apiKey # <<>> => cout'.error = "No config file found"
        /\ (cout'.cmd = "alias remove" /\ ToUpperCase(cout'.code) \notin DOMAIN StoredAliases) =>
              /\ cout'.exit = 1
              /\ (cout'.apiKey # <<>> /\ cout'.configFile # "") =>
                     cout'.error = "Alias not found"
        /\ cout'.exit = 1 =>
              /\ localFile' = localFile
              /\ globalFile' = globalFile
              /\ ~cout'.wrote
              /\ cout'.aliases = StoredAliases
    ]_vars

\* A removal of a code that is not stored, with a key and a file in place:
\* it failed and wrote nothing.
C12_Witness ==
    /\ cout.cmd = "alias remove" /\ cout.exit = 1
    /\ cout.error = "Alias not found"
    /\ cout.configFile # "" /\ ~cout.wrote
    /\ cout.n > 1

\* new is old with the lines at the positions of drop left out.
Without(old, drop) == SelectSeq([k \in 1..Len(old) |-> <<k, old[k]>>],
                                LAMBDA p : p[1] \notin drop)

LinesOf(pairs) == [k \in 1..Len(pairs) |-> pairs[k][2]]

HasAliasSection(lines) == \E k \in 1..Len(lines) : Trim(lines[k]) = AliasHeader

\* The step of an alias command rewrites the active file line by line.
RewrittenInPlace ==
    LET old == ActiveBefore
        new == ActiveAfter
        upperCode == ToUpperCase(cout'.code)
        aliasLine == upperCode \o <<"=">> \o cout'.name
    IN /\ cout'.configFile = "local" => globalFile' = globalFile
       /\ cout'.configFile = "global" => localFile' = localFile
       /\ cout'.cmd = "alias set" =>
            IF upperCode \in DOMAIN StoredAliases
            THEN /\ Len(new) = Len(old)
                 /\ \E k \in 1..Len(old) :
                      /\ new[k] = aliasLine
                      /\ ToUpperCase(Trim(KeyOf(Trim(old[k])))) = upperCode
                      /\ \A j \in 1..Len(old) : j # k => new[j] = old[j]
            ELSE IF HasAliasSection(old)
            THEN \E k \in 1..Len(old) :
                      new = SubSeq(old, 1, k) \o <<aliasLine>>
                              \o SubSeq(old, k + 1, Len(old))
            ELSE \/ new = old \o <<AliasHeader, aliasLine>>
                 \/ new = old \o <<(<<>>), AliasHeader, aliasLine>>
       /\ cout'.cmd = "alias remove" =>
            \E drop \in SUBSET (1..Len(old)) \ {{}} :
                /\ \A k \in drop :
                      ToUpperCase(Trim(KeyOf(Trim(old[k])))) = upperCode
                /\ new = LinesOf(Without(old, drop))

\* C13: a successful `alias c n` writes the active file with the entry of a
\* stored code replaced in place and every other line as it was; with the
\* entry of a new code inserted into a file that has an [aliases] section
\* and every line as it was, in the same order; and with a new section,
\* after at most one empty line, appended to a file that has none.  A
\* successful `alias --remove c` leaves out entries of c and nothing else.
\* The other file is not touched.
C13_RewritePreservesLines ==
    [][(AliasStep /\ cout'.exit = 0) => RewrittenInPlace]_vars

\* The same for the files with at most one [aliases] header.
OneSectionRewritePreservesLines ==
    [][(AliasStep /\ cout'.exit = 0
            /\ Cardinality({k \in 1..Len(ActiveBefore) :
                   Trim(ActiveBefore[k]) = AliasHeader}) <= 1) =>
        RewrittenInPlace]_vars

\* C14: a command that takes a project name matches the projects with the
\* name its argument resolves to: a stored alias code given as the argument
\* is replaced by its name before the lookup.
C14_AliasBeforeLookup ==
    (cout.cmd \in {"project show", "project complete"} /\ cout.exit = 0) =>
        cout.lookup = ResolveAlias(StoredAliases, cout.name)

\* What a file sets for the API key and for the team, empty when the file
\* does not exist or does not set it.
FileFields(file) ==
    LoadLines(IF file.exists THEN file.lines ELSE <<>>, 1,
              [inAliasSection |-> FALSE, aliases |-> NoTable,
               apiKey |-> <<>>, teamKey |-> <<>>])

\* The first of the three values that is there.
Layered(local, global, environment) ==
    IF local # <<>> THEN local ELSE IF global # <<>> THEN global ELSE environment

\* The commands that leave the files as they loaded them.
ReadOnlyCmds == {"alias list", "project show", "project complete", "whoami",
                 "help", "unknown"}

\* C15: the API key and the team a command runs with are, field by field,
\* the local file's value if it sets one, else the global file's, else the
\* environment variable's.
C15_LayeredConfig ==
    cout.cmd \in ReadOnlyCmds =>
        /\ cout.apiKey = Layered(FileFields(localFile).apiKey,
                                 FileFields(globalFile).apiKey, env.LINEAR_API_KEY)
        /\ cout.teamKey = Layered(FileFields(localFile).teamKey,
                                  FileFields(globalFile).teamKey, env.LINEAR_TEAM)

\* C19: a command other than login, logout and help that runs without an
\* API key from the active file or the environment ends with an error and
\* status 1 and has sent no request to the remote.
C19_NoKeyNoRequest ==
    (cout.cmd \notin {"none", "login", "logout", "help"} /\ cout.apiKey = <<>>) =>
        /\ cout.exit = 1
        /\ cout.error # ""
        /\ cout.requests = 0
        /\ ~cout.wrote

\* `whoami` after a logout that removed the only file holding a key: not
\* logged in, nothing sent.
C19_Witness ==
    /\ cout.cmd = "whoami" /\ cout.n > 1
    /\ cout.apiKey = <<>>
    /\ cout.exit = 1 /\ cout.error = "Not logged in"
    /\ cout.requests = 0

\* The steps of a --check / --uncheck that succeeded.
CheckedStep == kout'.cmd = "issue update" /\ kout'.exit = 0

\* C16: a successful --check / --uncheck changes exactly one line of the
\* description it worked on (the issue's own unless --description gave
\* one): a line that held a marker of the requested source state, of which
\* only the mark between the brackets changes; the persisted description
\* has every other line as it was, in the same order.
C16_OneMarkerChanges ==
    [][CheckedStep =>
        LET old == Split(kout'.base)
            new == Split(issue'.description)
            kind == FromPattern(kout'.isCheck)
        IN  /\ kout'.fetched => kout'.base = issue.description
            /\ "description" \in kout'.input
            /\ Len(new) = Len(old)
            /\ \E i \in 1..Len(old) :
                  /\ \A j \in 1..Len(old) : j # i => new[j] = old[j]
                  /\ new[i] # old[i]
                  /\ Len(new[i]) = Len(old[i])
                  /\ \E p \in 1..Len(old[i]) :
                        /\ MarkerAt(old[i], p, kind)
                        /\ \A c \in 1..Len(old[i]) :
                              c # p + 3 => new[i][c] = old[i][c]
                        /\ new[i][p + 3] = IF kout'.isCheck THEN "x" ELSE " "]_vars

\* A --check or --uncheck that matched one of several candidate lines of
\* the fetched description by part of its text.
C16_Witness ==
    /\ kout.cmd = "issue update" /\ kout.exit = 0
    /\ Len(kout.boxes) >= 2
    /\ ~kout.best.exact
    /\ kout.fetched
    /\ issue.description # kout.base
    /\ Len(Split(issue.description)) >= 3

\* The score of a text that is not the query: the length of the shorter
\* over the length of the longer when one contains the other, and else the
\* share of overlapping words.
RatioScore(text, queryLower) ==
    IF Includes(text, queryLower) \/ Includes(queryLower, text)
    THEN [num |-> Min(Len(text), Len(queryLower)),
          den |-> Max(Len(text), Len(queryLower))]
    ELSE ScoreBy(text, queryLower)

\* With a given score: a --check / --uncheck over at least one candidate
\* line succeeds only if some candidate is the query or scores at least
\* 0.3; when none does, it ends with status 1, lists every candidate line
\* and sends no update, whatever other fields were given.
ThresholdHolds(ScoreOf(_, _)) ==
    (kout.cmd = "issue update" /\ kout.boxes # <<>>) =>
        LET lines == Split(kout.base)
            queryLower == ToLowerCase(kout.query)
            good == \E k \in 1..Len(kout.boxes) :
                        LET text == TextOf(lines[kout.boxes[k]])
                            score == ScoreOf(text, queryLower)
                        IN  \/ text = queryLower
                            \/ score.num * Threshold.den >= Threshold.num * score.den
        IN  /\ kout.exit = 0 => good
            /\ ~good =>
                  /\ kout.exit = 1
                  /\ kout.error = "No checkbox matching"
                  /\ Len(kout.listed) = Len(kout.boxes)
                  /\ \A k \in 1..Len(kout.boxes) :
                        kout.listed[k] = Trim(lines[kout.boxes[k]])
                  /\ kout.input = {}

\* C17: a checklist match is accepted only if the best candidate score
\* (exact text, else shorter over longer on containment, else word
\* overlap) is at least 0.3; otherwise the command fails, lists every
\* candidate line and sends no update.
C17_ThresholdRejects == ThresholdHolds(RatioScore)

\* The same with the score the loop computes.
ThresholdOnComputedScore == ThresholdHolds(ScoreBy)

\* A rejected command changes nothing on the remote.
RejectedKeepsIssue ==
    [][(kout'.cmd = "issue update" /\ kout'.exit = 1) => issue' = issue]_vars

\* C20: a candidate text that is not the query but contains it, or is
\* contained in it, scores the length of the shorter of the two over the
\* length of the longer.
C20_ContainmentRatio ==
    \A k \in 1..Len(kout.scores) :
        LET text == kout.scores[k].text
            score == kout.scores[k].score
            queryLower == ToLowerCase(kout.query)
        IN  (text # queryLower
                 /\ (Includes(text, queryLower) \/ Includes(queryLower, text))) =>
                score.num * Max(Len(text), Len(queryLower))
                    = score.den * Min(Len(text), Len(queryLower))

\* The same for a text that contains the query.
ContainingTextRatio ==
    \A k \in 1..Len(kout.scores) :
        LET text == kout.scores[k].text
            score == kout.scores[k].score
            queryLower == ToLowerCase(kout.query)
        IN  (text # queryLower /\ Includes(text, queryLower)) =>
                score.num * Len(text) = score.den * Len(queryLower)

\* The identifiers of a list of issues.
Ids(list) == {list[k].identifier : k \in 1..Len(list)}

\* The issues of the base list that one filter class alone keeps; a class
\* that is not given keeps them all.
ClassAlone(class) ==
    LET base == BaseList(lout.issues, lout.opts)
    IN  IF class = "status"
        THEN IF Len(lout.opts.status) > 0
             THEN Ids(FilterByStatus(base, ResolvedStatusTypes(lout.opts.status)))
             ELSE Ids(base)
        ELSE Ids(ApplyFilters(base, [NoOpts EXCEPT ![class] = lout.opts[class]],
                              lout.viewerId, lout.aliases))

FilterClasses == {"mine", "label", "project", "milestone", "priority", "status"}

\* Whether the issue's state is the one a given status value stands for.
StatusValueMatches(i, value) ==
    LET type == IF ToLowerCase(value) \in StatusNames
                THEN StatusTypeMap(ToLowerCase(value)) ELSE ToLowerCase(value)
    IN  i.state.type = type \/ ToLowerCase(i.state.name) = type

\* C18: the rows of `issues` are the issues of the base list that every
\* given filter class keeps when applied alone to that base list, in the
\* base list's order; within the label class an issue is kept when it
\* carries any one of the given labels, and within the status class when
\* its state matches any one of the given values.
C18_FiltersIntersect ==
    (lout.cmd = "issues" /\ lout.exit = 0) =>
        LET base == BaseList(lout.issues, lout.opts)
            kept == {id \in Ids(base) : \A class \in FilterClasses : id \in ClassAlone(class)}
        IN  /\ lout.rows = SelectSeq([k \in 1..Len(base) |-> base[k].identifier],
                                     LAMBDA id : id \in kept)
            /\ Len(lout.opts.label) > 0 =>
                  ClassAlone("label") =
                      {base[k].identifier : k \in
                          {m \in 1..Len(base) :
                              \E f \in 1..Len(lout.opts.label), l \in 1..Len(base[m].labels) :
                                  ToLowerCase(base[m].labels[l])
                                      = ToLowerCase(lout.opts.label[f])}}
            /\ Len(lout.opts.status) > 0 =>
                  ClassAlone("status") =
                      {base[k].identifier : k \in
                          {m \in 1..Len(base) :
                              \E f \in 1..Len(lout.opts.status) :
                                  StatusValueMatches(base[m], lout.opts.status[f])}}

\* label=bug and status=todo over A (bug, todo), B (bug, done) and
\* C (feature, todo) lists exactly A.
C18_Witness ==
    /\ lout.cmd = "issues" /\ lout.exit = 0
    /\ lout.opts = [NoOpts EXCEPT !.label = <<<<"B", "U", "G">>>>, !.status = <<<<"t", "o", "d", "o">>>>]
    /\ Ids(lout.issues) = {"A", "B", "C"}
    /\ lout.rows = <<"A">>

\* Two labels given: an issue with one of them is listed.
C18_WitnessAnyLabel ==
    /\ lout.cmd = "issues"
    /\ Len(lout.opts.label) = 2 /\ Len(lout.opts.status) = 2
    /\ lout.opts.mine /\ lout.opts.project # None /\ lout.opts.all
    /\ lout.rows # <<>>

\* Whether the issue's coarse state type or its display name is the given
\* value, letter case aside.
StatusValueIs(i, value) ==
    \/ ToLowerCase(i.state.type) = ToLowerCase(value)
    \/ ToLowerCase(i.state.name) = ToLowerCase(value)

\* The commands that give --status and no other filter class.
StatusOnly ==
    /\ lout.cmd = "issues" /\ lout.exit = 0
    /\ Len(lout.opts.status) > 0
    /\ lout.opts = [NoOpts EXCEPT !.status = lout.opts.status,
                                  !.all = lout.opts.all, !.open = lout.opts.open,
                                  !.unblocked = lout.opts.unblocked]

\* C21: with --status alone, an issue of the base list is listed if and
\* only if, for at least one given value, its coarse state type or its
\* display name is that value, letter case aside.
C21_StatusTypeOrName ==
    StatusOnly =>
        LET base == BaseList(lout.issues, lout.opts)
        IN  \A k \in 1..Len(base) :
                Has(lout.rows, base[k].identifier) <=>
                    \E f \in 1..Len(lout.opts.status) :
                        StatusValueIs(base[k], lout.opts.status[f])

\* The issue a row shows.
RowIssue(k) ==
    CHOOSE i \in {lout.issues[m] : m \in 1..Len(lout.issues)} :
        i.identifier = lout.rows[k]

\* Whether an issue is assigned to the viewer of the command.
Mine(i) == lout.viewerId # "" /\ i.assignee = lout.viewerId

\* The place of a priority in the display order: urgent (1) to low (4),
\* then no priority (0).
UrgencyRank(i) == IF i.priority = 0 THEN 5 ELSE i.priority

\* Whether a row may stand before another: the viewer's first, then the
\* more urgent, then the higher sortOrder.
MayPrecede(a, b) ==
    IF Mine(a) # Mine(b) THEN Mine(a)
    ELSE IF UrgencyRank(a) # UrgencyRank(b) THEN UrgencyRank(a) < UrgencyRank(b)
    ELSE a.sortOrder >= b.sortOrder

RowsInOrder ==
    \A k \in 1..Len(lout.rows), m \in 1..Len(lout.rows) :
        k < m => MayPrecede(RowIssue(k), RowIssue(m))

\* C22: the issues a command lists stand in the order: assigned to the
\* viewer first, then by priority from urgent to low with no priority
\* last, then by sortOrder, higher first.
C22_ListsSorted ==
    (lout.cmd \in {"issues", "roadmap"} /\ lout.exit = 0) => RowsInOrder

\* The same for the issues command alone.
IssuesRowsSorted ==
    (lout.cmd = "issues" /\ lout.exit = 0) => RowsInOrder

\* C23: the sibling a command selects for a name is the first one, in
\* the order the remote returned them, whose name contains the given name,
\* letter case aside: for every name of reorder, and for the item and the
\* anchor of move.
C23_FirstInFetchOrder ==
    /\ (sout.cmd = "reorder" /\ sout.exit = 0) =>
           \A k \in 1..Len(sout.names) :
               sout.targets[k] = Find(FetchOrder, sout.names[k])
    /\ (sout.cmd = "move" /\ sout.exit = 0) =>
           /\ sout.item = Find(FetchOrder, sout.names[1])
           /\ sout.anchor = Find(FetchOrder, sout.names[2])

\* The same for reorder alone.
ReorderFirstInFetchOrder ==
    (sout.cmd = "reorder" /\ sout.exit = 0) =>
        \A k \in 1..Len(sout.names) :
            sout.targets[k] = Find(FetchOrder, sout.names[k])

\* move selects the first match of the list sorted by key, higher first.
MoveFirstInSortedOrder ==
    [][(sout'.cmd = "move" /\ sout'.exit = 0) =>
          /\ sout'.item = Find(SortDesc(sortOrder), sout'.names[1])
          /\ sout'.anchor = Find(SortDesc(sortOrder), sout'.names[2])]_vars

\* The operations logged so far.
Ops == [k \in 1..Len(nrun.log) |-> nrun.log[k].op]

\* Whether a git worktree add succeeded.
Added == \E k \in 1..Len(nrun.log) :
             nrun.log[k].op \in {"worktree add -b", "worktree add"} /\ nrun.log[k].ok

\* C24: in next, the worktree is attached to an existing branch only right
\* after creating the branch with the worktree has failed; when the second
\* attempt fails too, the command exits with status 1 and has neither
\* copied the include files nor installed nor printed the cd command; when
\* one attempt succeeds, the copy, the install (when a package manager is
\* detected) and the cd command follow, in that order.
C24_AttachAfterCreateFails ==
    (nrun.pc # "idle" /\ ~nrun.dryRun /\ ~nrun.exists) =>
        /\ \A k \in 1..Len(nrun.log) :
              nrun.log[k].op = "worktree add" =>
                  /\ k = 2
                  /\ nrun.log[1] = [op |-> "worktree add -b", ok |-> FALSE]
        /\ \A k \in 1..Len(nrun.log) :
              nrun.log[k].op \in {"copy includes", "install", "cd"} =>
                  /\ k > 1
                  /\ nrun.log[k].op = "copy includes" =>
                        /\ nrun.log[k - 1].op \in {"worktree add -b", "worktree add"}
                        /\ nrun.log[k - 1].ok
                  /\ nrun.log[k].op = "install" =>
                        nrun.log[k - 1].op = "copy includes"
                  /\ nrun.log[k].op = "cd" =>
                        nrun.log[k - 1].op =
                            IF DetectPackageManager(nrun.files) # "none"
                            THEN "install" ELSE "copy includes"
        /\ nrun.pc = "exited" =>
              IF Added
              THEN nrun.exit = 0 /\ Ops[Len(Ops)] = "cd"
              ELSE /\ nrun.exit = 1
                   /\ Ops = <<"worktree add -b", "worktree add">>

\* The branch existed: creating failed, attaching succeeded, and the copy,
\* the install and the cd command followed.
C24_Witness ==
    /\ nrun.pc = "exited" /\ nrun.exit = 0
    /\ Ops = <<"worktree add -b", "worktree add", "copy includes", "install", "cd">>
    /\ ~nrun.log[1].ok /\ nrun.log[2].ok

\* Both attempts failed.
C24_WitnessFailed ==
    /\ nrun.pc = "exited" /\ nrun.exit = 1
    /\ Ops = <<"worktree add -b", "worktree add">>

\* The slug of the branch name made: what follows the identifier and its
\* hyphen.
SlugMade == SubSeq(nrun.branchName, Len(<<"I", "-", "5", "-">>) + 1, Len(nrun.branchName))

\* C29: the slug made from the title is not empty and neither begins nor
\* ends with a hyphen, so the branch name does not end with a hyphen.
C29_SlugWellFormed ==
    nrun.pc \notin {"idle", "selected"} =>
        /\ SlugMade # <<>>
        /\ SlugMade[1] # "-"
        /\ SlugMade[Len(SlugMade)] # "-"
        /\ nrun.branchName[Len(nrun.branchName)] # "-"

\* What holds of every slug: at most 50 characters, each a lower-case
\* letter, a digit or a hyphen, no two hyphens in a row and none at the
\* beginning.
SlugShape ==
    nrun.pc \notin {"idle", "selected"} =>
        /\ Len(SlugMade) <= SlugLimit
        /\ \A k \in 1..Len(SlugMade) : IsAlnum(SlugMade[k]) \/ SlugMade[k] = "-"
        /\ \A k \in 1..(Len(SlugMade) - 1) : ~(SlugMade[k] = "-" /\ SlugMade[k + 1] = "-")
        /\ SlugMade # <<>> => SlugMade[1] # "-"

\* C25: after a successful reorder, every listed target holds a key
\* strictly greater than the key of every sibling that was not listed.
C25_TargetsOnTop ==
    [][(ReorderStep /\ Distinct(sout'.targets)) =>
          \A t \in Range(sout'.targets), e \in Siblings \ Range(sout'.targets) :
              sortOrder'[t] > sortOrder'[e]]_vars

\* The first listed target does hold a key above every sibling not listed.
FirstTargetOnTop ==
    [][(ReorderStep /\ Distinct(sout'.targets)) =>
          \A e \in Siblings \ Range(sout'.targets) :
              \E t \in Range(sout'.targets) : sortOrder'[t] > sortOrder'[e]]_vars

\* C26: the keys a successful reorder leaves are the same whatever the
\* order in which the remote applied its update requests.
C26_ApplyOrderIrrelevant ==
    [][ReorderStep =>
          \A last \in LastApplied(sout'.sent) :
              sortOrder' = Applied(sortOrder, sout'.sent, last)]_vars

\* The same for pairwise distinct targets.
DistinctApplyOrderIrrelevant ==
    [][(ReorderStep /\ Distinct(sout'.targets)) =>
          \A last \in LastApplied(sout'.sent) :
              sortOrder' = Applied(sortOrder, sout'.sent, last)]_vars

\* C27: after a successful alias command, the alias table the process
\* holds in memory is the table the next command loads from the file.
C27_TableMatchesFile ==
    (cout.cmd \in {"alias set", "alias remove"} /\ cout.exit = 0) =>
        cout.aliases = StoredAliases

\* The same for the codes without "=".
PlainCodeTableMatchesFile ==
    (cout.cmd \in {"alias set", "alias remove"} /\ cout.exit = 0
         /\ \A k \in 1..Len(cout.code) : cout.code[k] # "=") =>
        cout.aliases = StoredAliases

\* C28: when `issue update --check q` has succeeded on the stored
\* description and `issue update --uncheck q` comes next, the second command
\* succeeds, picks the line the first one picked and leaves the description
\* the first one started from.
C28_UncheckUndoesCheck ==
    [][(/\ kout.cmd = "issue update" /\ kout.exit = 0
        /\ kout.isCheck /\ kout.fetched
        /\ kout'.cmd = "issue update" /\ ~kout'.isCheck /\ kout'.fetched
        /\ kout'.query = kout.query) =>
            /\ kout'.exit = 0
            /\ kout'.best.index = kout.best.index
            /\ issue'.description = kout.base
    ]_vars

\* C30: after `logout` the next command in the same directory finds no API
\* key and no team in the config files, whichever of them existed before.
C30_LogoutClearsConfig ==
    cout.cmd = "logout" =>
        LET next == LoadConfig(localFile, globalFile, NoEnv)
        IN next.apiKey = <<>> /\ next.teamKey = <<>>

\* The same when at most one of the two files existed: none is left.
LogoutOfOneFile ==
    [][(cout'.cmd = "logout" /\ cout'.n = cout.n + 1
            /\ ~(localFile.exists /\ globalFile.exists)) =>
        (~localFile'.exists /\ ~globalFile'.exists)]_vars

====
